---------------------------- MODULE Spec2Model ----------------------------
(***************************************************************************)
(* Quarterly estimated-tax calculator (TaxtTrail): the tax engine of       *)
(* src/lib/tax.ts, the aggregation and the installment allocator of the    *)
(* calculator pages (src/App.tsx and the gig-worker page).                 *)
(*                                                                         *)
(* Numbers.  The program computes with JavaScript numbers.  The model      *)
(* computes the same expressions in exact decimal arithmetic: a number is  *)
(* a tuple <<d, a, b, c>> standing for d + a/10^4 + b/10^8 + c/10^12 with  *)
(* d any integer and a, b, c in 0..9999.  Every input of the model is a    *)
(* multiple of 1/1000 of a dollar, for which all products with the         *)
(* program's rates (0.9235, 0.124, 0.029, 0.009, 0.5, 0.15, 1.10 and the   *)
(* bracket rates) are exact at 10^-12.  Binary floating-point rounding     *)
(* error of the JavaScript operations is not modelled.                     *)
(***************************************************************************)
EXTENDS Integers, Sequences, FiniteSets, TLC

VARIABLES
    \* --- allocator harness (splitIntoQuarters as a function of its inputs)
    aTotal,        \* the amount handed to splitIntoQuarters
    aN,            \* dueDates.length
    aAnnualized,   \* useAnnualized
    aQuarters,     \* the returned sequence
    aPhase,        \* "call" before the call, "returned" after it
    \* --- bracket harness (federalIncomeTax2025 on two taxable incomes)
    bStatus,       \* filing status
    bTaxable,      \* taxable income a
    bTaxable2,     \* taxable income b >= a
    bTax,          \* federalIncomeTax2025(a, status)
    bTax2,         \* federalIncomeTax2025(b, status)
    bPhase,
    \* --- self-employment tax harness (seTax2025)
    sNbi,          \* netBusinessIncome
    sW2,           \* w2Wages
    sStatus,       \* filing status
    sResult,       \* the returned record
    sPhase,
    \* --- the calculator pages (App and the gig-worker page)
    page,          \* "app" or "gig": the page that is mounted
    i,             \* the Inputs state
    annualize,     \* installment style: TRUE is annualized (30/30/20/20)
    activePreset,  \* App only: the preset last applied
    entries,       \* gig-worker page only: expenseData.entries
    \* --- expense categorization harness (categorizeExpense)
    cDescription,  \* description
    cBusinessType, \* businessType
    cResponse,     \* how the inference call settles
    cResult,       \* how the returned promise settles
    cPhase,
    \* --- the premium-download gate of the pages
    leadEmail,
    premiumUnlocked,
    showUpgradeModal,
    pendingDownload,  \* "csv", "pdf" or "null"
    emailError,
    dFile,            \* the file the last handler generated: "csv", "pdf", "none"
    dHandler,         \* the handler that ran last
    \* --- the AI-assisted operations of the gig-worker page
    isAnalyzing,
    aiInsights,       \* "none", or where the shown insights came from
    inFlight,         \* the handler suspended at its await, with what it captured
    aiPath            \* the path the last AI-assisted handler took

allocVars == <<aTotal, aN, aAnnualized, aQuarters, aPhase>>
bracketVars == <<bStatus, bTaxable, bTaxable2, bTax, bTax2, bPhase>>
seVars == <<sNbi, sW2, sStatus, sResult, sPhase>>
pageVars == <<page, i, annualize, activePreset, entries>>
catVars == <<cDescription, cBusinessType, cResponse, cResult, cPhase>>
gateVars == <<leadEmail, premiumUnlocked, showUpgradeModal, pendingDownload,
              emailError, dFile, dHandler>>
aiVars == <<isAnalyzing, aiInsights, inFlight, aiPath>>
extraVars == <<catVars, gateVars, aiVars>>
vars == <<allocVars, bracketVars, seVars, pageVars, extraVars>>

(***************************************************************************)
(* JavaScript number arithmetic, exact on the model's decimals.            *)
(***************************************************************************)
\* carries propagated so that the three fractional limbs are in 0..9999
Norm(d, a, b, c) ==
    LET b0 == b + (c \div 10000)
        a0 == a + (b0 \div 10000)
    IN  <<d + (a0 \div 10000), a0 % 10000, b0 % 10000, c % 10000>>

FromInt(k) == <<k, 0, 0, 0>>

\* x + y
Add(x, y) == Norm(x[1] + y[1], x[2] + y[2], x[3] + y[3], x[4] + y[4])

\* x - y
Sub(x, y) == Norm(x[1] - y[1], x[2] - y[2], x[3] - y[3], x[4] - y[4])

\* x * k for an integer k
Times(x, k) == Norm(x[1] * k, x[2] * k, x[3] * k, x[4] * k)

\* x / m for an integer m in 1..10000 (exact on the model's values)
Over(x, m) ==
    LET r1 == x[1] % m
        t2 == r1 * 10000 + x[2]
        t3 == (t2 % m) * 10000 + x[3]
        t4 == (t3 % m) * 10000 + x[4]
    IN  <<x[1] \div m, t2 \div m, t3 \div m, t4 \div m>>

\* x * (num / den): the product of x with a decimal rate such as 0.124 = 124/1000
Rate(x, num, den) == Times(Over(x, den), num)

\* x < y
Less(x, y) ==
    \/ x[1] < y[1]
    \/ x[1] = y[1] /\ x[2] < y[2]
    \/ x[1] = y[1] /\ x[2] = y[2] /\ x[3] < y[3]
    \/ x[1] = y[1] /\ x[2] = y[2] /\ x[3] = y[3] /\ x[4] < y[4]

\* x <= y
Leq(x, y) == ~Less(y, x)

\* Math.max(x, y), Math.min(x, y)
MathMax(x, y) == IF Less(x, y) THEN y ELSE x
MathMin(x, y) == IF Less(y, x) THEN y ELSE x

\* Math.round(x): the nearest integer, a tie going up; Math.floor(x)
MathRound(x) == IF x[2] >= 5000 THEN x[1] + 1 ELSE x[1]
MathFloor(x) == x[1]

Zero == FromInt(0)

\* amounts written in thousandths of a dollar
Mills(m) == <<m \div 1000, (m % 1000) * 10, 0, 0>>
Dollars(k) == FromInt(k)

\* amounts written in cents
Cents(c) == <<c \div 100, (c % 100) * 100, 0, 0>>

(***************************************************************************)
(* src/lib/tax.ts: the 2025 tables.                                        *)
(***************************************************************************)
FilingStatus == {"single", "mfj", "mfs", "hoh"}

STANDARD_DEDUCTION_2025 ==
    [single |-> 15000, mfj |-> 30000, mfs |-> 15000, hoh |-> 22500]

\* {rate, upto}: the rate in percent; bounded = FALSE stands for upto: null
Bracket(rate, upto) == [rate |-> rate, upto |-> upto, bounded |-> TRUE]
LastBracket(rate) == [rate |-> rate, upto |-> 0, bounded |-> FALSE]

BRACKETS_2025 ==
    [single |-> <<Bracket(10, 11925), Bracket(12, 48475), Bracket(22, 103350),
                  Bracket(24, 197300), Bracket(32, 250525), Bracket(35, 626350),
                  LastBracket(37)>>,
     mfj    |-> <<Bracket(10, 23850), Bracket(12, 96950), Bracket(22, 206700),
                  Bracket(24, 394600), Bracket(32, 501050), Bracket(35, 751600),
                  LastBracket(37)>>,
     mfs    |-> <<Bracket(10, 11925), Bracket(12, 48475), Bracket(22, 103350),
                  Bracket(24, 197300), Bracket(32, 250525), Bracket(35, 375800),
                  LastBracket(37)>>,
     hoh    |-> <<Bracket(10, 17075), Bracket(12, 65550), Bracket(22, 103350),
                  Bracket(24, 197300), Bracket(32, 250525), Bracket(35, 626350),
                  LastBracket(37)>>]

SSA_WAGE_BASE_2025 == 176100

ADDL_MEDICARE_THRESHOLDS ==
    [single |-> 200000, hoh |-> 200000, mfs |-> 125000, mfj |-> 250000]

(***************************************************************************)
(* federalIncomeTax2025 (tax.ts 80-95).  BracketLoop is the for loop from  *)
(* bracket k on, with the loop's variables remaining, tax and lower.       *)
(***************************************************************************)
\* a plausible slip: tax = span * rate instead of tax += span * rate
RECURSIVE BracketLoopAssign(_, _, _, _, _)
BracketLoopAssign(b, k, remaining, tax, lower) ==
    IF k > Len(b) THEN tax
    ELSE LET span == IF b[k].bounded
                     THEN MathMax(Zero, MathMin(remaining, Sub(Dollars(b[k].upto), lower)))
                     ELSE MathMax(Zero, remaining)
             hit == Less(Zero, span)
             tax1 == IF hit THEN Rate(span, b[k].rate, 100) ELSE tax
             remaining1 == IF hit THEN Sub(remaining, span) ELSE remaining
             lower1 == IF hit /\ b[k].bounded THEN Dollars(b[k].upto) ELSE lower
         IN  IF Leq(remaining1, Zero) THEN tax1
             ELSE BracketLoopAssign(b, k + 1, remaining1, tax1, lower1)

\* a plausible slip: lower = top left out
RECURSIVE BracketLoopLowerStuck(_, _, _, _, _)
BracketLoopLowerStuck(b, k, remaining, tax, lower) ==
    IF k > Len(b) THEN tax
    ELSE LET span == IF b[k].bounded
                     THEN MathMax(Zero, MathMin(remaining, Sub(Dollars(b[k].upto), lower)))
                     ELSE MathMax(Zero, remaining)
             hit == Less(Zero, span)
             tax1 == IF hit THEN Add(tax, Rate(span, b[k].rate, 100)) ELSE tax
             remaining1 == IF hit THEN Sub(remaining, span) ELSE remaining
         IN  IF Leq(remaining1, Zero) THEN tax1
             ELSE BracketLoopLowerStuck(b, k + 1, remaining1, tax1, lower)

RECURSIVE BracketLoop(_, _, _, _, _)
BracketLoop(b, k, remaining, tax, lower) ==
    IF k > Len(b) THEN tax
    ELSE \* top = upto ?? Infinity; span = max(0, min(remaining, top - lower))
         LET span == IF b[k].bounded
                     THEN MathMax(Zero, MathMin(remaining, Sub(Dollars(b[k].upto), lower)))
                     ELSE MathMax(Zero, remaining)
             hit == Less(Zero, span)
             tax1 == IF hit THEN Add(tax, Rate(span, b[k].rate, 100)) ELSE tax
             remaining1 == IF hit THEN Sub(remaining, span) ELSE remaining
             \* lower = top; after the unbounded bracket nothing remains
             lower1 == IF hit /\ b[k].bounded THEN Dollars(b[k].upto) ELSE lower
         IN  IF Leq(remaining1, Zero) THEN tax1
             ELSE BracketLoop(b, k + 1, remaining1, tax1, lower1)

federalIncomeTax2025(taxable, status) ==
    IF Leq(taxable, Zero) THEN Zero
    ELSE MathMax(Zero, FromInt(MathRound(
             BracketLoop(BRACKETS_2025[status], 1, taxable, Zero, Zero))))

(***************************************************************************)
(* seTax2025 (tax.ts 97-115).                                              *)
(***************************************************************************)
\* seBase = Math.max(0, netBusinessIncome) * 0.9235
\* a plausible slip: the loss not floored
SeBaseNoFloor(netBusinessIncome) == Rate(netBusinessIncome, 9235, 10000)

SeBaseUnscaled(netBusinessIncome) == MathMax(Zero, netBusinessIncome)

SeBase(netBusinessIncome) == Rate(MathMax(Zero, netBusinessIncome), 9235, 10000)

\* a plausible slip: the wage base not reduced by the W-2 wages
OasdiIgnoringWages(seBase, w2Wages) ==
    Rate(MathMin(seBase, Dollars(SSA_WAGE_BASE_2025)), 124, 1000)

\* oasdiBaseLeft, oasdiTaxable, oasdi = oasdiTaxable * OASDI_RATE
Oasdi(seBase, w2Wages) ==
    LET oasdiBaseLeft ==
            MathMax(Zero, Sub(Dollars(SSA_WAGE_BASE_2025), MathMax(Zero, w2Wages)))
        oasdiTaxable == MathMin(seBase, oasdiBaseLeft)
    IN  Rate(oasdiTaxable, 124, 1000)

\* medicare = seBase * MEDICARE_RATE
Medicare(seBase) == Rate(seBase, 29, 1000)

\* a plausible slip: the base not capped at seBase
AddlMedicareUncapped(seBase, w2Wages, status) ==
    LET combinedMedicareWages == Add(MathMax(Zero, w2Wages), seBase)
        threshold == Dollars(ADDL_MEDICARE_THRESHOLDS[status])
    IN  Rate(MathMax(Zero, Sub(combinedMedicareWages, threshold)), 9, 1000)

\* combinedMedicareWages, overThreshold, addlMedicareBase, addlMedicare
AddlMedicare(seBase, w2Wages, status) ==
    LET combinedMedicareWages == Add(MathMax(Zero, w2Wages), seBase)
        threshold == Dollars(ADDL_MEDICARE_THRESHOLDS[status])
        overThreshold == MathMax(Zero, Sub(combinedMedicareWages, threshold))
        addlMedicareBase == MathMin(overThreshold, seBase)
    IN  Rate(addlMedicareBase, 9, 1000)

\* a plausible slip: half of the whole SE tax deducted
seTax2025DeductingAll(netBusinessIncome, w2Wages, status) ==
    LET seBase == SeBase(netBusinessIncome)
        oasdi == Oasdi(seBase, w2Wages)
        medicare == Medicare(seBase)
        addlMedicare == AddlMedicare(seBase, w2Wages, status)
        total == Add(Add(oasdi, medicare), addlMedicare)
    IN  [oasdi |-> oasdi, medicare |-> medicare, addlMedicare |-> addlMedicare,
         total |-> total, seBase |-> seBase, deduction |-> Rate(total, 5, 10)]

seTax2025(netBusinessIncome, w2Wages, status) ==
    LET seBase == SeBase(netBusinessIncome)
        oasdi == Oasdi(seBase, w2Wages)
        medicare == Medicare(seBase)
        addlMedicare == AddlMedicare(seBase, w2Wages, status)
    IN  [oasdi |-> oasdi, medicare |-> medicare, addlMedicare |-> addlMedicare,
         total |-> Add(Add(oasdi, medicare), addlMedicare),
         seBase |-> seBase,
         deduction |-> Rate(Add(oasdi, medicare), 5, 10)]

standardDeduction2025(status) == Dollars(STANDARD_DEDUCTION_2025[status])

\* childCreditsEstimate (tax.ts 121-137); the counts are numbers
childCreditsEstimate(earnedIncome, numQualifyingChildren, numOtherDependents, perChildCTC, refundableCapPerChild) ==
    [nonrefChild |-> Times(MathMax(Zero, numQualifyingChildren), perChildCTC),
     otherDep |-> Times(MathMax(Zero, numOtherDependents), 500),
     actcLimitByIncome |->
         Rate(MathMax(Zero, Sub(earnedIncome, Dollars(2500))), 15, 100),
     actcCap |-> Times(MathMax(Zero, numQualifyingChildren), refundableCapPerChild)]

\* taxYear2025DueDates (tax.ts 139-146)
taxYear2025DueDates == <<"2025-04-15", "2025-06-16", "2025-09-15", "2026-01-15">>

\* toNumber (tax.ts 172-178) of what a number field holds: text that does not
\* parse to a finite number gives 0
toNumber(input) == IF input.finite THEN input.num ELSE Zero

(***************************************************************************)
(* splitIntoQuarters (App.tsx 221-239, identical on the gig-worker page).  *)
(* n is dueDates.length.  Sequences are 1-based here: the code's index     *)
(* idx (0 .. length-1) is idx+1 in the model.                              *)
(***************************************************************************)
RECURSIVE SumSeq(_)
SumSeq(s) == IF s = <<>> THEN 0 ELSE Head(s) + SumSeq(Tail(s))

\* a plausible slip: the 30/30/20/20 policy applied without the length test
WeightsNoLengthTest(useAnnualized, n) ==
    IF useAnnualized THEN <<30, 30, 20, 20>> ELSE [k \in 1..n |-> 1]

Weights(useAnnualized, n) ==
    IF useAnnualized /\ n = 4 THEN <<30, 30, 20, 20>> ELSE [k \in 1..n |-> 1]

\* a plausible slip: the remainder handed out from the first index forward
RECURSIVE DistributeForward(_, _, _)
DistributeForward(allocations, remainder, idx) ==
    IF remainder > 0
    THEN LET j == Len(allocations) + 1 - idx
         IN  DistributeForward([allocations EXCEPT ![j] = @ + 1], remainder - 1,
                               IF idx = 1 THEN Len(allocations) ELSE idx - 1)
    ELSE allocations

\* a plausible slip: the remainder dropped
DistributeNothing(allocations, remainder, idx) == allocations

\* the while loop: one cent per visit, from the last index backward
DistributeAllToLast(allocations, remainder, idx) ==
    IF remainder > 0 THEN [allocations EXCEPT ![idx] = @ + remainder] ELSE allocations

RECURSIVE DistributeRemainder(_, _, _)
DistributeRemainder(allocations, remainder, idx) ==
    IF remainder > 0
    THEN DistributeRemainder([allocations EXCEPT ![idx] = @ + 1], remainder - 1,
                             IF idx = 1 THEN Len(allocations) ELSE idx - 1)
    ELSE allocations

\* a plausible slip: Math.floor in place of Math.round
TotalCentsFloor(total) ==
    LET r == MathFloor(Times(total, 100)) IN IF r > 0 THEN r ELSE 0

\* Math.max(0, Math.round(total * 100))
TotalCentsUnfloored(total) == MathRound(Times(total, 100))

TotalCents(total) ==
    LET r == MathRound(Times(total, 100)) IN IF r > 0 THEN r ELSE 0

splitIntoQuarters(total, useAnnualized, n) ==
    IF n = 0 THEN <<>>
    ELSE LET totalCents == TotalCents(total) IN
         IF totalCents = 0 THEN [k \in 1..n |-> Zero]
         ELSE LET weights == Weights(useAnnualized, n)
                  weightSum == SumSeq(weights)
                  allocations == [k \in 1..Len(weights) |->
                                     (totalCents * weights[k]) \div weightSum]
                  remainder == totalCents - SumSeq(allocations)
                  final == DistributeRemainder(allocations, remainder, Len(allocations))
              IN  [k \in 1..Len(final) |-> Over(FromInt(final[k]), 100)]

(***************************************************************************)
(* The calculator pages: App (App.tsx) and the gig-worker page.  Both keep *)
(* an Inputs state i guarded by InputsSchema, and derive totals from it.   *)
(***************************************************************************)
SafeHarborModes == {"current", "prior100", "prior110"}
PresetKeys == {"blank", "rideshare", "etsySeller", "consultant"}

\* InputsSchema (App.tsx 40-51) on a value whose fields have the right types
InputsSchema(o) ==
    /\ o.filingStatus \in FilingStatus
    /\ Leq(Zero, o.w2Wages)
    /\ Leq(Zero, o.w2Withheld)
    /\ Leq(Zero, o.otherIncome)
    /\ Leq(Zero, o.dependentsUnder17)
    /\ Leq(Zero, o.otherDependents)
    /\ o.safeHarborMode \in SafeHarborModes
    /\ Leq(Zero, o.priorYearTotalTax)

\* defaultInputs (App.tsx 55-66)
defaultInputs ==
    [filingStatus |-> "single", w2Wages |-> Zero, w2Withheld |-> Zero,
     netBusinessIncome |-> Zero, otherIncome |-> Zero,
     dependentsUnder17 |-> Zero, otherDependents |-> Zero,
     use2200PerChild |-> FALSE, safeHarborMode |-> "current",
     priorYearTotalTax |-> Zero]

\* what localStorage holds under STORAGE_KEY: nothing, text that is no JSON, or
\* a JSON object; typesOk says whether every field of the object has the type
\* the schema asks for (a number, a boolean, a string) and none is missing
loadStoredInputs(item) ==
    IF item.kind = "absent" THEN defaultInputs
    ELSE IF item.kind = "unparsable" THEN defaultInputs
    ELSE IF item.typesOk /\ InputsSchema(item.obj) THEN item.obj
    ELSE defaultInputs

asNonNegativeCurrency(value) == MathMax(Zero, toNumber(value))
asNetBusinessIncome(value) == toNumber(value)
asNonNegativeInt(value) == MathMax(Zero, FromInt(MathFloor(toNumber(value))))

\* PRESET_DETAILS[key].seed (App.tsx 108-165); blank has the empty seed
PresetSeed(key) ==
    CASE key = "rideshare" ->
           [filingStatus |-> "single", netBusinessIncome |-> Dollars(42000),
            otherIncome |-> Dollars(1500), w2Wages |-> Dollars(8000),
            w2Withheld |-> Dollars(600), dependentsUnder17 |-> Zero,
            otherDependents |-> Zero, use2200PerChild |-> FALSE,
            safeHarborMode |-> "current", priorYearTotalTax |-> Zero]
      [] key = "etsySeller" ->
           [filingStatus |-> "mfj", netBusinessIncome |-> Dollars(58000),
            otherIncome |-> Dollars(6500), w2Wages |-> Dollars(38000),
            w2Withheld |-> Dollars(3200), dependentsUnder17 |-> Dollars(1),
            otherDependents |-> Zero, use2200PerChild |-> FALSE,
            safeHarborMode |-> "prior110", priorYearTotalTax |-> Dollars(9200)]
      [] key = "consultant" ->
           [filingStatus |-> "single", netBusinessIncome |-> Dollars(125000),
            otherIncome |-> Dollars(4000), w2Wages |-> Zero,
            w2Withheld |-> Zero, dependentsUnder17 |-> Zero,
            otherDependents |-> Zero, use2200PerChild |-> FALSE,
            safeHarborMode |-> "prior100", priorYearTotalTax |-> Dollars(24000)]

\* applyInputs (App.tsx 201-207): the merged value replaces i if it passes the
\* schema, and i stays as it is otherwise
applyInputsUnchecked(cur, patch) ==
    [f \in DOMAIN cur |-> IF f \in DOMAIN patch THEN patch[f] ELSE cur[f]]

applyInputs(cur, patch) ==
    LET next == [f \in DOMAIN cur |-> IF f \in DOMAIN patch THEN patch[f] ELSE cur[f]]
    IN  IF InputsSchema(next) THEN next ELSE cur

\* getTotalExpenses (expenses library 191-193)
getTotalExpensesFirstOnly(es) ==
    IF es = <<>> THEN Zero ELSE Head(es).amount

RECURSIVE getTotalExpenses(_)
getTotalExpenses(es) ==
    IF es = <<>> THEN Zero ELSE Add(Head(es).amount, getTotalExpenses(Tail(es)))

\* the steps of totals after the credits (App.tsx 260-276; the gig-worker page
\* has the same lines at 369-385)
NonrefUsedChildOnly(incomeTax, credits) == MathMin(incomeTax, credits.nonrefChild)

NonrefUsed(incomeTax, credits) ==
    LET nonrefAvail == Add(credits.nonrefChild, credits.otherDep)
    IN  MathMin(incomeTax, nonrefAvail)

ActcIgnoringEarnedIncome(incomeTax, credits) ==
    LET childRemaining ==
            MathMax(Zero, Sub(credits.nonrefChild, MathMin(incomeTax, credits.nonrefChild)))
    IN  MathMin(credits.actcCap, childRemaining)

ActcIgnoringTaxOffset(incomeTax, credits) ==
    MathMin(MathMin(credits.actcLimitByIncome, credits.actcCap), credits.nonrefChild)

Actc(incomeTax, credits) ==
    LET childRemaining ==
            MathMax(Zero, Sub(credits.nonrefChild, MathMin(incomeTax, credits.nonrefChild)))
    IN  MathMin(MathMin(credits.actcLimitByIncome, credits.actcCap), childRemaining)

TotalTaxLiabilityFloored(incomeTaxAfterNonref, seTotal, actc) ==
    MathMax(Zero, Sub(Add(incomeTaxAfterNonref, seTotal), actc))

TotalTaxLiability(incomeTaxAfterNonref, seTotal, actc) ==
    Sub(Add(incomeTaxAfterNonref, seTotal), actc)

SafeHarbor110Truncating(priorYearTotalTax) ==
    FromInt(MathFloor(Rate(priorYearTotalTax, 110, 100)))

SafeHarbor110(priorYearTotalTax) ==
    FromInt(MathRound(Rate(priorYearTotalTax, 110, 100)))

RequiredAtLeastCurrent(safeHarborMode, safeHarbor100, safeHarbor110, totalTaxLiability) ==
    IF safeHarborMode = "prior100" THEN MathMax(safeHarbor100, totalTaxLiability)
    ELSE IF safeHarborMode = "prior110" THEN MathMax(safeHarbor110, totalTaxLiability)
    ELSE totalTaxLiability

RequiredForSafeHarbor(safeHarborMode, safeHarbor100, safeHarbor110, totalTaxLiability) ==
    IF safeHarborMode = "prior100" THEN safeHarbor100
    ELSE IF safeHarborMode = "prior110" THEN safeHarbor110
    ELSE totalTaxLiability

EstTaxUnfloored(requiredForSafeHarbor, w2Withheld) ==
    Sub(requiredForSafeHarbor, w2Withheld)

EstTaxAfterWithholding(requiredForSafeHarbor, w2Withheld) ==
    MathMax(Zero, Sub(requiredForSafeHarbor, w2Withheld))

\* totals (App.tsx 241-298)
totals(in, useAnnualized) ==
    LET totalIncome == Add(Add(in.w2Wages, in.netBusinessIncome), in.otherIncome)
        earnedIncome == Add(in.w2Wages, MathMax(Zero, in.netBusinessIncome))
        se == seTax2025(in.netBusinessIncome, in.w2Wages, in.filingStatus)
        stdDed == standardDeduction2025(in.filingStatus)
        agiAdjustments == se.deduction
        taxableIncomeBase ==
            MathMax(Zero, Sub(Sub(totalIncome, stdDed), agiAdjustments))
        incomeTax == federalIncomeTax2025(taxableIncomeBase, in.filingStatus)
        perChild == IF in.use2200PerChild THEN 2200 ELSE 2000
        credits == childCreditsEstimate(earnedIncome, in.dependentsUnder17,
                                        in.otherDependents, perChild, 1700)
        nonrefUsed == NonrefUsed(incomeTax, credits)
        incomeTaxAfterNonref == MathMax(Zero, Sub(incomeTax, nonrefUsed))
        actc == Actc(incomeTax, credits)
        totalTaxLiability == TotalTaxLiability(incomeTaxAfterNonref, se.total, actc)
        safeHarbor100 == in.priorYearTotalTax
        safeHarbor110 == SafeHarbor110(in.priorYearTotalTax)
        requiredForSafeHarbor ==
            RequiredForSafeHarbor(in.safeHarborMode, safeHarbor100, safeHarbor110,
                                  totalTaxLiability)
        estTaxAfterWithholding ==
            EstTaxAfterWithholding(requiredForSafeHarbor, in.w2Withheld)
        quarters == splitIntoQuarters(estTaxAfterWithholding, useAnnualized,
                                      Len(taxYear2025DueDates))
    IN  [totalIncome |-> totalIncome, earnedIncome |-> earnedIncome,
         stdDed |-> stdDed, agiAdjustments |-> agiAdjustments,
         taxableIncomeBase |-> taxableIncomeBase, incomeTax |-> incomeTax,
         se |-> se, nonrefUsed |-> nonrefUsed,
         incomeTaxAfterNonref |-> incomeTaxAfterNonref, actc |-> actc,
         totalTaxLiability |-> totalTaxLiability,
         safeHarbor100 |-> safeHarbor100, safeHarbor110 |-> safeHarbor110,
         requiredForSafeHarbor |-> requiredForSafeHarbor,
         estTaxAfterWithholding |-> estTaxAfterWithholding,
         quarters |-> quarters]

\* totals of the gig-worker page (348-409): the expenses come off the business
\* income first
gigTotals(in, useAnnualized, es) ==
    LET totalExpenses == getTotalExpenses(es)
        netBusinessIncomeAfterExpenses == Sub(in.netBusinessIncome, totalExpenses)
        totalIncome ==
            Add(Add(in.w2Wages, netBusinessIncomeAfterExpenses), in.otherIncome)
        earnedIncome == Add(in.w2Wages, MathMax(Zero, netBusinessIncomeAfterExpenses))
        se == seTax2025(netBusinessIncomeAfterExpenses, in.w2Wages, in.filingStatus)
        stdDed == standardDeduction2025(in.filingStatus)
        agiAdjustments == se.deduction
        taxableIncomeBase ==
            MathMax(Zero, Sub(Sub(totalIncome, stdDed), agiAdjustments))
        incomeTax == federalIncomeTax2025(taxableIncomeBase, in.filingStatus)
        perChild == IF in.use2200PerChild THEN 2200 ELSE 2000
        credits == childCreditsEstimate(earnedIncome, in.dependentsUnder17,
                                        in.otherDependents, perChild, 1700)
        nonrefUsed == NonrefUsed(incomeTax, credits)
        incomeTaxAfterNonref == MathMax(Zero, Sub(incomeTax, nonrefUsed))
        actc == Actc(incomeTax, credits)
        totalTaxLiability == TotalTaxLiability(incomeTaxAfterNonref, se.total, actc)
        safeHarbor100 == in.priorYearTotalTax
        safeHarbor110 == SafeHarbor110(in.priorYearTotalTax)
        requiredForSafeHarbor ==
            RequiredForSafeHarbor(in.safeHarborMode, safeHarbor100, safeHarbor110,
                                  totalTaxLiability)
        estTaxAfterWithholding ==
            EstTaxAfterWithholding(requiredForSafeHarbor, in.w2Withheld)
        quarters == splitIntoQuarters(estTaxAfterWithholding, useAnnualized,
                                      Len(taxYear2025DueDates))
    IN  [totalIncome |-> totalIncome, earnedIncome |-> earnedIncome,
         stdDed |-> stdDed, agiAdjustments |-> agiAdjustments,
         taxableIncomeBase |-> taxableIncomeBase, incomeTax |-> incomeTax,
         se |-> se, nonrefUsed |-> nonrefUsed,
         incomeTaxAfterNonref |-> incomeTaxAfterNonref, actc |-> actc,
         totalTaxLiability |-> totalTaxLiability,
         safeHarbor100 |-> safeHarbor100, safeHarbor110 |-> safeHarbor110,
         requiredForSafeHarbor |-> requiredForSafeHarbor,
         estTaxAfterWithholding |-> estTaxAfterWithholding,
         quarters |-> quarters,
         totalExpenses |-> totalExpenses,
         netBusinessIncomeAfterExpenses |-> netBusinessIncomeAfterExpenses]

\* the totals the mounted page shows
PageTotals == IF page = "app" THEN totals(i, annualize)
              ELSE gigTotals(i, annualize, entries)

(***************************************************************************)
(* Allocator harness: the inputs are drawn in the initial state and the    *)
(* call is one step.                                                       *)
(***************************************************************************)
MaxMills == 250
AllocBases == {0, 1234560, 22542570}
AllocCounts == {0, 1, 2, 4, 12}
AllocTotals ==
    {Mills(b + k) : b \in AllocBases, k \in 0..MaxMills} \cup {Mills(-k) : k \in 1..20}

CatIdle ==
    /\ cDescription = "" /\ cBusinessType = "rideshare" /\ cResponse = <<>>
    /\ cResult = <<>> /\ cPhase = "idle"

GateIdle ==
    /\ leadEmail = "" /\ premiumUnlocked = FALSE /\ showUpgradeModal = FALSE
    /\ pendingDownload = "null" /\ emailError = "" /\ dFile = "none"
    /\ dHandler = "idle"

\* no handler is suspended
NoCall ==
    [op |-> "none", form |-> [amount |-> [finite |-> FALSE, num |-> <<0, 0, 0, 0>>],
                              description |-> "", category |-> ""],
     input |-> "", confirmed |-> FALSE]

AiIdle ==
    /\ isAnalyzing = FALSE /\ aiInsights = "none" /\ inFlight = NoCall
    /\ aiPath = "idle"

ExtraIdle == CatIdle /\ GateIdle /\ AiIdle

AllocIdle ==
    /\ aTotal = Zero /\ aN = 0 /\ aAnnualized = FALSE
    /\ aQuarters = <<>> /\ aPhase = "idle"

BracketIdle ==
    /\ bStatus = "single" /\ bTaxable = Zero /\ bTaxable2 = Zero
    /\ bTax = Zero /\ bTax2 = Zero /\ bPhase = "idle"

SeIdle ==
    /\ sNbi = Zero /\ sW2 = Zero /\ sStatus = "single"
    /\ sResult = <<>> /\ sPhase = "idle"

PageIdle ==
    /\ page = "none" /\ i = defaultInputs /\ annualize = FALSE
    /\ activePreset = "blank" /\ entries = <<>>

InitAlloc ==
    /\ aTotal \in AllocTotals
    /\ aN \in AllocCounts
    /\ aAnnualized \in BOOLEAN
    /\ aQuarters = <<>>
    /\ aPhase = "call"
    /\ BracketIdle /\ SeIdle /\ PageIdle /\ ExtraIdle

CallSplit ==
    /\ aPhase = "call"
    /\ aQuarters' = splitIntoQuarters(aTotal, aAnnualized, aN)
    /\ aPhase' = "returned"
    /\ UNCHANGED <<aTotal, aN, aAnnualized, bracketVars, seVars, pageVars, extraVars>>

NextAlloc == CallSplit

SpecAlloc == InitAlloc /\ [][NextAlloc]_vars

(***************************************************************************)
(* Bracket harness: federalIncomeTax2025 on a taxable income a and on      *)
(* b = a + delta, for the same filing status.  The incomes lie around 0    *)
(* and around every upper bound of the status's table, in steps of 25      *)
(* cents, and a few lie far inside the brackets.                           *)
(***************************************************************************)
MaxOffset == 12
BracketAnchors(status) ==
    {0} \cup {BRACKETS_2025[status][k].upto * 100 : k \in 1..6}
        \cup {BRACKETS_2025[status][6].upto * 100 + 30000000}
TaxableValues(status) ==
    {Cents(u + 25 * k) : u \in BracketAnchors(status), k \in -MaxOffset..MaxOffset}
Deltas == {0, 1, 25, 99, 100, 5000, 2500000, 40000000}

InitBracket ==
    /\ bStatus \in FilingStatus
    /\ bTaxable \in TaxableValues(bStatus)
    /\ \E d \in Deltas : bTaxable2 = Add(bTaxable, Cents(d))
    /\ bTax = Zero /\ bTax2 = Zero
    /\ bPhase = "call"
    /\ AllocIdle /\ SeIdle /\ PageIdle /\ ExtraIdle

CallIncomeTax ==
    /\ bPhase = "call"
    /\ bTax' = federalIncomeTax2025(bTaxable, bStatus)
    /\ bTax2' = federalIncomeTax2025(bTaxable2, bStatus)
    /\ bPhase' = "returned"
    /\ UNCHANGED <<bStatus, bTaxable, bTaxable2, allocVars, seVars, pageVars, extraVars>>

NextBracket == CallIncomeTax

SpecBracket == InitBracket /\ [][NextBracket]_vars

(***************************************************************************)
(* Self-employment tax harness: seTax2025 on net business incomes from a   *)
(* loss to above the wage base and W-2 wages from 0 to above every         *)
(* Additional Medicare threshold (8 steps of 22,012.50 are the wage base). *)
(***************************************************************************)
MaxNbiSteps == 12
MaxW2Steps == 12
NbiValues == {Cents(2500037 * k) : k \in -2..MaxNbiSteps}
W2Values == {Cents(2201250 * k) : k \in 0..MaxW2Steps}

InitSe ==
    /\ sNbi \in NbiValues
    /\ sW2 \in W2Values
    /\ sStatus \in FilingStatus
    /\ sResult = <<>>
    /\ sPhase = "call"
    /\ AllocIdle /\ BracketIdle /\ PageIdle /\ ExtraIdle

CallSeTax ==
    /\ sPhase = "call"
    /\ sResult' = seTax2025(sNbi, sW2, sStatus)
    /\ sPhase' = "returned"
    /\ UNCHANGED <<sNbi, sW2, sStatus, allocVars, bracketVars, pageVars, extraVars>>

NextSe == CallSeTax

SpecSe == InitSe /\ [][NextSe]_vars


(***************************************************************************)
(* The calculator pages as a state machine.  The page is mounted with the  *)
(* Inputs loaded from storage; every form control is an action that hands  *)
(* its value to applyInputs; App also has the preset buttons, the          *)
(* gig-worker page the expense ledger.                                     *)
(***************************************************************************)
MaxEntries == 2

Typed(x) == [finite |-> TRUE, num |-> x]
NotANumber == [finite |-> FALSE, num |-> Zero]

\* what the user types into the number fields
TypedW2Wages == {Typed(Dollars(180000))}
TypedW2Withheld == {NotANumber}
TypedNetBusinessIncome == {Typed(Cents(-2000055))}
TypedOtherIncome == {Typed(Dollars(-100))}
TypedDependentsUnder17 == {Typed(Cents(270))}
TypedOtherDependents == {Typed(Cents(120))}
TypedPriorYearTotalTax == {Typed(Cents(5000050))}
TypedExpenseAmounts == {Typed(Cents(1234567)), Typed(Zero), NotANumber}

\* what storage may hold under STORAGE_KEY (the lead storage is empty, so App
\* starts with the preset 'blank')
StoredObject ==
    [filingStatus |-> "hoh", w2Wages |-> Dollars(12000), w2Withheld |-> Cents(90025),
     netBusinessIncome |-> Dollars(30000), otherIncome |-> Dollars(700000),
     dependentsUnder17 |-> Dollars(2), otherDependents |-> Dollars(1),
     use2200PerChild |-> TRUE, safeHarborMode |-> "current",
     priorYearTotalTax |-> Zero]
StoredItems ==
    { [kind |-> "absent", typesOk |-> FALSE, obj |-> defaultInputs],
      [kind |-> "unparsable", typesOk |-> FALSE, obj |-> defaultInputs],
      [kind |-> "object", typesOk |-> TRUE, obj |-> StoredObject],
      [kind |-> "object", typesOk |-> FALSE, obj |-> StoredObject],
      [kind |-> "object", typesOk |-> TRUE,
       obj |-> [StoredObject EXCEPT !.w2Withheld = Dollars(-5)]],
      [kind |-> "object", typesOk |-> TRUE,
       obj |-> [StoredObject EXCEPT !.filingStatus = "widow"]],
      [kind |-> "object", typesOk |-> TRUE,
       obj |-> [StoredObject EXCEPT !.dependentsUnder17 = Cents(150)]] }

\* what storage may hold under the expenses key: nothing, or a valid ledger
StoredEntries == {<<>>, <<[amount |-> Cents(1234567), category |-> "vehicle_gas"]>>}

Init ==
    /\ page \in {"app", "gig"}
    /\ \E item \in StoredItems : i = loadStoredInputs(item)
    /\ annualize = FALSE
    /\ activePreset = "blank"
    /\ entries \in (IF page = "gig" THEN StoredEntries ELSE {<<>>})
    /\ AllocIdle /\ BracketIdle /\ SeIdle /\ ExtraIdle

Untouched == UNCHANGED <<allocVars, bracketVars, seVars, extraVars>>

ChangeFilingStatus ==
    /\ \E v \in FilingStatus : i' = applyInputs(i, [filingStatus |-> v])
    /\ UNCHANGED <<page, annualize, activePreset, entries>> /\ Untouched

ChangeDependentsUnder17 ==
    /\ \E t \in TypedDependentsUnder17 :
           i' = applyInputs(i, [dependentsUnder17 |-> asNonNegativeInt(t)])
    /\ UNCHANGED <<page, annualize, activePreset, entries>> /\ Untouched

ChangeOtherDependents ==
    /\ \E t \in TypedOtherDependents :
           i' = applyInputs(i, [otherDependents |-> asNonNegativeInt(t)])
    /\ UNCHANGED <<page, annualize, activePreset, entries>> /\ Untouched

ChangeUse2200PerChild ==
    /\ \E v \in BOOLEAN : i' = applyInputs(i, [use2200PerChild |-> v])
    /\ UNCHANGED <<page, annualize, activePreset, entries>> /\ Untouched

ChangeW2Wages ==
    /\ \E t \in TypedW2Wages :
           i' = applyInputs(i, [w2Wages |-> asNonNegativeCurrency(t)])
    /\ UNCHANGED <<page, annualize, activePreset, entries>> /\ Untouched

ChangeW2Withheld ==
    /\ \E t \in TypedW2Withheld :
           i' = applyInputs(i, [w2Withheld |-> asNonNegativeCurrency(t)])
    /\ UNCHANGED <<page, annualize, activePreset, entries>> /\ Untouched

ChangeNetBusinessIncome ==
    /\ \E t \in TypedNetBusinessIncome :
           i' = applyInputs(i, [netBusinessIncome |-> asNetBusinessIncome(t)])
    /\ UNCHANGED <<page, annualize, activePreset, entries>> /\ Untouched

ChangeOtherIncome ==
    /\ \E t \in TypedOtherIncome :
           i' = applyInputs(i, [otherIncome |-> asNonNegativeCurrency(t)])
    /\ UNCHANGED <<page, annualize, activePreset, entries>> /\ Untouched

ChangeSafeHarborMode ==
    /\ \E v \in SafeHarborModes : i' = applyInputs(i, [safeHarborMode |-> v])
    /\ UNCHANGED <<page, annualize, activePreset, entries>> /\ Untouched

ChangePriorYearTotalTax ==
    /\ \E t \in TypedPriorYearTotalTax :
           i' = applyInputs(i, [priorYearTotalTax |-> asNonNegativeCurrency(t)])
    /\ UNCHANGED <<page, annualize, activePreset, entries>> /\ Untouched

\* the installment style select: setAnnualize(value === 'annualized')
ChangeInstallmentStyle ==
    /\ \E v \in BOOLEAN : annualize' = v
    /\ UNCHANGED <<page, i, activePreset, entries>> /\ Untouched

\* applyPreset (App.tsx 209-219)
applyPreset ==
    /\ page = "app"
    /\ \E key \in PresetKeys :
           /\ activePreset' = key
           /\ i' = IF key = "blank" THEN applyInputs(i, defaultInputs)
                   ELSE applyInputs(i, PresetSeed(key))
    /\ UNCHANGED <<page, annualize, entries>> /\ Untouched

\* String.prototype.trim, for blanks
RECURSIVE trim(_)
trim(str) ==
    IF str = "" THEN ""
    ELSE IF SubSeq(str, 1, 1) = " " THEN trim(SubSeq(str, 2, Len(str)))
    ELSE IF SubSeq(str, Len(str), Len(str)) = " " THEN trim(SubSeq(str, 1, Len(str) - 1))
    ELSE str

\* the ledger addExpense (gig-worker page 163-197) leaves, the form holding
\* newExpense: refused unless the amount is positive and a description and a
\* category are given
addExpenseTo(ledger, newExpense) ==
    LET amount == toNumber(newExpense.amount)
        description == trim(newExpense.description)
    IN  IF Leq(amount, Zero) \/ description = "" \/ newExpense.category = ""
        THEN ledger
        ELSE Append(ledger, [amount |-> amount, category |-> newExpense.category])

\* the Add Expense button; a suspended AI-assisted handler may still append
\* its entry, so one place of the bounded ledger is kept for it
addExpense ==
    /\ page = "gig"
    /\ Len(entries) + (IF inFlight.op = "none" THEN 0 ELSE 1) < MaxEntries
    /\ \E t \in TypedExpenseAmounts, description \in {"", "gas"},
          category \in {"", "vehicle_gas"} :
           entries' = addExpenseTo(entries, [amount |-> t, description |-> description,
                                             category |-> category])
    /\ UNCHANGED <<page, i, annualize, activePreset>> /\ Untouched

\* removeExpense (gig-worker page 199-204); an entry's id is its place here
removeExpense ==
    /\ page = "gig"
    /\ \E k \in 1..Len(entries) :
           entries' = [j \in 1..(Len(entries) - 1) |->
                          IF j < k THEN entries[j] ELSE entries[j + 1]]
    /\ UNCHANGED <<page, i, annualize, activePreset>> /\ Untouched

Next ==
    \/ ChangeFilingStatus \/ ChangeDependentsUnder17 \/ ChangeOtherDependents
    \/ ChangeUse2200PerChild \/ ChangeW2Wages \/ ChangeW2Withheld
    \/ ChangeNetBusinessIncome \/ ChangeOtherIncome \/ ChangeSafeHarborMode
    \/ ChangePriorYearTotalTax \/ ChangeInstallmentStyle
    \/ applyPreset \/ addExpense \/ removeExpense

Spec == Init /\ [][Next]_vars

(***************************************************************************)
(* The AI library (categorizeExpense and its rule-based fallback).  A      *)
(* JavaScript string is a TLA+ string; null and '' are both the empty      *)
(* string, the callers testing a category only for truthiness.  A          *)
(* confidence is written in percent (0.7 is 70); the reasoning text of a    *)
(* result is left out.                                                     *)
(***************************************************************************)
UpperCaseLetters == "ABCDEFGHIJKLMNOPQRSTUVWXYZ"
LowerCaseLetters == "abcdefghijklmnopqrstuvwxyz"

\* String.prototype.toLowerCase
toLowerCaseIdentity(str) == str

RECURSIVE toLowerCase(_)
toLowerCase(str) ==
    IF str = "" THEN ""
    ELSE LET c == SubSeq(str, 1, 1)
             low == IF \E k \in 1..26 : SubSeq(UpperCaseLetters, k, k) = c
                    THEN LET k == CHOOSE k \in 1..26 : SubSeq(UpperCaseLetters, k, k) = c
                         IN  SubSeq(LowerCaseLetters, k, k)
                    ELSE c
         IN  low \o toLowerCase(SubSeq(str, 2, Len(str)))

\* String.prototype.includes
includes(str, keyword) ==
    \E k \in 1..(Len(str) - Len(keyword) + 1) :
        SubSeq(str, k, k + Len(keyword) - 1) = keyword

BusinessTypes == {"ecommerce", "rideshare", "consultant"}

Pattern(keywords, category) == [keywords |-> keywords, category |-> category]

\* the keyword table of ruleBased_categorizeExpense
patterns ==
    [ecommerce |->
        << Pattern(<<"inventory", "stock", "product", "wholesale">>, "cogs_inventory"),
           Pattern(<<"shipping", "postage", "fedex", "ups", "usps">>, "shipping_postage"),
           Pattern(<<"amazon", "ebay", "etsy", "marketplace">>, "fees_marketplace"),
           Pattern(<<"stripe", "paypal", "payment">>, "fees_payment"),
           Pattern(<<"ads", "advertising", "facebook", "google">>, "marketing_ads"),
           Pattern(<<"quickbooks", "accounting", "software">>, "software_accounting") >>,
     rideshare |->
        << Pattern(<<"gas", "gasoline", "fuel">>, "vehicle_gas"),
           Pattern(<<"uber", "lyft", "doordash", "commission">>, "rideshare_commissions"),
           Pattern(<<"phone", "cellular", "mobile">>, "rideshare_phone"),
           Pattern(<<"toll", "parking", "car wash">>, "rideshare_tolls"),
           Pattern(<<"charger", "mount", "dash cam">>, "rideshare_supplies") >>,
     consultant |->
        << Pattern(<<"website", "hosting", "domain">>, "consultant_advertising"),
           Pattern(<<"flight", "hotel", "travel", "mileage">>, "consultant_travel"),
           Pattern(<<"meal", "lunch", "dinner", "restaurant">>, "consultant_meals"),
           Pattern(<<"laptop", "computer", "monitor">>, "consultant_equipment"),
           Pattern(<<"office", "supplies", "stationery">>, "consultant_office") >>]

\* the for loop of ruleBased_categorizeExpense from pattern k on
RECURSIVE PatternLoop(_, _, _)
PatternLoop(businessPatterns, desc, k) ==
    IF k > Len(businessPatterns)
    THEN [category |-> "", confidence |-> 30]
    ELSE IF \E n \in 1..Len(businessPatterns[k].keywords) :
                includes(desc, businessPatterns[k].keywords[n])
         THEN [category |-> businessPatterns[k].category, confidence |-> 70]
         ELSE PatternLoop(businessPatterns, desc, k + 1)

ruleBased_categorizeExpense(description, amount, businessType) ==
    LET desc == toLowerCase(description)
        businessPatterns == IF businessType \in DOMAIN patterns
                            THEN patterns[businessType] ELSE <<>>
    IN  PatternLoop(businessPatterns, desc, 1)

\* the try block of categorizeExpense: it returns a value, throws, or falls
\* through to the code after the catch.  response is how hf.textGeneration
\* settles: rejected, or fulfilled with a text that has no {...} part, a {...}
\* part JSON.parse refuses, or one it parses to an object with the given
\* category and confidence ('' and 0 when absent)
CategorizeTry(response) ==
    IF response.kind = "rejected" THEN [outcome |-> "threw"]
    ELSE IF response.json = "none" THEN [outcome |-> "fellThrough"]
    ELSE IF response.json = "invalid" THEN [outcome |-> "threw"]
    ELSE LET given == IF response.confidence = 0 THEN 50 ELSE response.confidence
             atLeast0 == IF given < 0 THEN 0 ELSE given
         IN  [outcome |-> "returned",
              value |-> [category |-> response.category,
                         confidence |-> IF atLeast0 > 100 THEN 100 ELSE atLeast0]]

categorizeExpenseRethrowing(description, amount, businessType, response) ==
    LET try == CategorizeTry(response)
    IN  IF try.outcome = "returned" THEN [settled |-> "fulfilled", value |-> try.value]
        ELSE IF try.outcome = "threw" THEN [settled |-> "rejected"]
        ELSE [settled |-> "fulfilled",
              value |-> ruleBased_categorizeExpense(description, amount, businessType)]

\* categorizeExpense: how the promise it returns settles
categorizeExpense(description, amount, businessType, response) ==
    LET try == CategorizeTry(response)
    IN  IF try.outcome = "returned" THEN [settled |-> "fulfilled", value |-> try.value]
        ELSE [settled |-> "fulfilled",
              value |-> ruleBased_categorizeExpense(description, amount, businessType)]

(***************************************************************************)
(* Categorization harness: the description, the business type and the      *)
(* settlement of the inference call are drawn in the initial state.        *)
(***************************************************************************)
Rejected == [kind |-> "rejected", json |-> "none", category |-> "", confidence |-> 0]
Text(json, category, confidence) ==
    [kind |-> "fulfilled", json |-> json, category |-> category, confidence |-> confidence]

CatDescriptions ==
    {"Uber gas refill", "UBER commission", "Car Wash", "groceries", "Gasket",
     "GAS", "gas", "UPS shipping of stock", "Lunch at hotel", "carwash", ""}
CatResponses ==
    {Rejected, Text("none", "", 0), Text("invalid", "", 0),
     Text("object", "vehicle_gas", 85), Text("object", "", 0),
     Text("object", "rideshare_phone", 150), Text("object", "made_up", -20)}

InitCat ==
    /\ cDescription \in CatDescriptions
    /\ cBusinessType \in BusinessTypes
    /\ cResponse \in CatResponses
    /\ cResult = <<>>
    /\ cPhase = "call"
    /\ AllocIdle /\ BracketIdle /\ SeIdle /\ PageIdle /\ GateIdle /\ AiIdle

CallCategorize ==
    /\ cPhase = "call"
    /\ cResult' = categorizeExpense(cDescription, Cents(4250), cBusinessType, cResponse)
    /\ cPhase' = "settled"
    /\ UNCHANGED <<cDescription, cBusinessType, cResponse,
                   allocVars, bracketVars, seVars, pageVars, gateVars, aiVars>>

NextCat == CallCategorize

SpecCat == InitCat /\ [][NextCat]_vars

(***************************************************************************)
(* The premium-download gate (App.tsx 376-407; the gig-worker page has the *)
(* same handlers at 517-548).  The handlers are functions of the gate's    *)
(* state; `file` is the download function a handler called.                *)
(***************************************************************************)
emailPatternTestAtOnly(email) == \E p \in 1..Len(email) : SubSeq(email, p, p) = "@"

\* /^[^\s@]+@[^\s@]+\.[^\s@]+$/.test(email): an @ at p with nothing but
\* non-blank, non-@ characters around it, and a dot at q after it that is
\* neither next to the @ nor the last character
emailPatternTest(email) ==
    \E p \in 2..Len(email) :
        /\ SubSeq(email, p, p) = "@"
        /\ \A k \in 1..Len(email) :
               /\ SubSeq(email, k, k) # " "
               /\ (k # p => SubSeq(email, k, k) # "@")
        /\ \E q \in (p + 2)..(Len(email) - 1) : SubSeq(email, q, q) = "."

EmailErrorMessage == "Enter a valid email to unlock premium downloads."

\* loadStoredLead (App.tsx 87-106): the stored lead if it has a string email
\* and a boolean unlocked, the empty locked lead otherwise
loadStoredLead(item) ==
    IF item.kind = "object" /\ item.typesOk
    THEN [email |-> item.email, unlocked |-> item.unlocked]
    ELSE [email |-> "", unlocked |-> FALSE]

GateState ==
    [leadEmail |-> leadEmail, premiumUnlocked |-> premiumUnlocked,
     showUpgradeModal |-> showUpgradeModal, pendingDownload |-> pendingDownload,
     emailError |-> emailError]

\* handleDownloadRequest (App.tsx 376-384)
handleDownloadRequest(st, type) ==
    IF ~st.premiumUnlocked
    THEN [state |-> [st EXCEPT !.pendingDownload = type, !.showUpgradeModal = TRUE],
          file |-> "none"]
    ELSE [state |-> st, file |-> type]

closeUpgradeModalKeepingPending(st) ==
    [state |-> [st EXCEPT !.showUpgradeModal = FALSE, !.emailError = ""],
     file |-> "none"]

\* closeUpgradeModal (App.tsx 386-390)
closeUpgradeModal(st) ==
    [state |-> [st EXCEPT !.showUpgradeModal = FALSE, !.pendingDownload = "null",
                          !.emailError = ""],
     file |-> "none"]

\* unlockDownloads (App.tsx 392-407)
unlockDownloads(st) ==
    LET email == trim(st.leadEmail)
    IN  IF ~emailPatternTest(email)
        THEN [state |-> [st EXCEPT !.emailError = EmailErrorMessage], file |-> "none"]
        ELSE LET nextAction == st.pendingDownload
             IN  [state |-> [st EXCEPT !.emailError = "", !.premiumUnlocked = TRUE,
                                       !.showUpgradeModal = FALSE,
                                       !.pendingDownload = "null"],
                  file |-> IF nextAction = "csv" THEN "csv"
                           ELSE IF nextAction = "pdf" THEN "pdf" ELSE "none"]

\* what storage may hold under the lead key, and what the user types into the
\* email field of the modal
StoredLeads ==
    { [kind |-> "absent", typesOk |-> FALSE, email |-> "", unlocked |-> FALSE],
      [kind |-> "object", typesOk |-> FALSE, email |-> "a@b.c", unlocked |-> TRUE],
      [kind |-> "object", typesOk |-> TRUE, email |-> "first.last@mail.example.org",
       unlocked |-> TRUE],
      [kind |-> "object", typesOk |-> TRUE, email |-> " a@b.co ", unlocked |-> FALSE] }
TypedEmails ==
    {"", "a@b.c", "x.y@z.io", "a@b", "a b@c.d", "a@@b.c", "@b.c", "a@b.", "a@.c"}

InitGate ==
    /\ \E item \in StoredLeads :
           /\ leadEmail = loadStoredLead(item).email
           /\ premiumUnlocked = loadStoredLead(item).unlocked
    /\ showUpgradeModal = FALSE
    /\ pendingDownload = "null"
    /\ emailError = ""
    /\ dFile = "none"
    /\ dHandler = "mount"
    /\ AllocIdle /\ BracketIdle /\ SeIdle /\ PageIdle /\ CatIdle /\ AiIdle

\* a handler's outcome becomes the next state of the gate
GateBecomes(outcome, handler) ==
    /\ leadEmail' = outcome.state.leadEmail
    /\ premiumUnlocked' = outcome.state.premiumUnlocked
    /\ showUpgradeModal' = outcome.state.showUpgradeModal
    /\ pendingDownload' = outcome.state.pendingDownload
    /\ emailError' = outcome.state.emailError
    /\ dFile' = outcome.file
    /\ dHandler' = handler
    /\ UNCHANGED <<allocVars, bracketVars, seVars, pageVars, catVars, aiVars>>

\* the two download buttons
RequestDownload ==
    \E type \in {"csv", "pdf"} :
        GateBecomes(handleDownloadRequest(GateState, type), "handleDownloadRequest")

\* the backdrop and the close button of the modal
CloseModal ==
    /\ showUpgradeModal
    /\ GateBecomes(closeUpgradeModal(GateState), "closeUpgradeModal")

\* the email field of the modal: setLeadEmail(e.target.value)
ChangeLeadEmail ==
    /\ showUpgradeModal
    /\ \E typed \in TypedEmails :
           GateBecomes([state |-> [GateState EXCEPT !.leadEmail = typed], file |-> "none"],
                       "setLeadEmail")

\* the form of the modal is submitted
SubmitEmail ==
    /\ showUpgradeModal
    /\ GateBecomes(unlockDownloads(GateState), "unlockDownloads")

NextGate == RequestDownload \/ CloseModal \/ ChangeLeadEmail \/ SubmitEmail

SpecGate == InitGate /\ [][NextGate]_vars

(***************************************************************************)
(* The AI-assisted operations of the gig-worker page (addExpenseWithAI,    *)
(* addNaturalLanguageExpense, generateAIInsights) and the two library      *)
(* functions they await besides categorizeExpense.  A handler runs to its  *)
(* await in one step and from the settlement of the awaited promise to its *)
(* end in another.  The three buttons are disabled while isAnalyzing is    *)
(* set, so at most one handler is suspended.  An entry's description is    *)
(* not part of the model's ledger, so the description a parse returns is   *)
(* left out; the insights are known by where they came from.               *)
(***************************************************************************)
\* \d of the regular expressions
IsDigit(c) == c \in {"0", "1", "2", "3", "4", "5", "6", "7", "8", "9"}

\* the number the first k characters of a string of decimal digits write
RECURSIVE DigitsValue(_, _)
DigitsValue(str, k) ==
    IF k = 0 THEN 0
    ELSE 10 * DigitsValue(str, k - 1)
         + (CHOOSE d \in 0..9 : SubSeq("0123456789", d + 1, d + 1) = SubSeq(str, k, k))

\* group 1 of input.match(/\$?(\d+(?:\.\d{2})?)/), '' when there is no match:
\* the leftmost run of digits at its full length, with a dot and two digits
\* when they follow it
amountMatch(input) ==
    IF ~\E p \in 1..Len(input) : IsDigit(SubSeq(input, p, p)) THEN ""
    ELSE LET p == CHOOSE p \in 1..Len(input) :
                      /\ IsDigit(SubSeq(input, p, p))
                      /\ \A k \in 1..(p - 1) : ~IsDigit(SubSeq(input, k, k))
             q == CHOOSE q \in p..Len(input) :
                      /\ \A k \in p..q : IsDigit(SubSeq(input, k, k))
                      /\ (q = Len(input) \/ ~IsDigit(SubSeq(input, q + 1, q + 1)))
             decimals == /\ q + 3 <= Len(input)
                         /\ SubSeq(input, q + 1, q + 1) = "."
                         /\ IsDigit(SubSeq(input, q + 2, q + 2))
                         /\ IsDigit(SubSeq(input, q + 3, q + 3))
         IN  SubSeq(input, p, IF decimals THEN q + 3 ELSE q)

\* parseFloat of such a match
parseFloatOfMatch(str) ==
    IF Len(str) > 3 /\ SubSeq(str, Len(str) - 2, Len(str) - 2) = "."
    THEN Cents(100 * DigitsValue(str, Len(str) - 3)
               + DigitsValue(SubSeq(str, Len(str) - 1, Len(str)), 2))
    ELSE Dollars(DigitsValue(str, Len(str)))

\* the try block of parseNaturalLanguageExpense (AI library 538-574).  The
\* response is as for categorizeExpense; of a parsed object, amount is what
\* parseFloat makes of its amount and category its category ('' when absent)
ParseTry(response) ==
    IF response.kind = "rejected" THEN [outcome |-> "threw"]
    ELSE IF response.json = "none" THEN [outcome |-> "fellThrough"]
    ELSE IF response.json = "invalid" THEN [outcome |-> "threw"]
    ELSE [outcome |-> "returned",
          value |-> [amount |-> MathMax(Zero, toNumber(response.amount)),
                     category |-> response.category]]

\* parseNaturalLanguageExpense: how the promise it returns settles
parseNaturalLanguageExpense(input, businessType, response) ==
    LET try == ParseTry(response)
    IN  IF try.outcome = "returned" THEN [settled |-> "fulfilled", value |-> try.value]
        ELSE LET match == amountMatch(input)
             IN  [settled |-> "fulfilled",
                  value |-> [amount |-> IF match = "" THEN Zero
                                        ELSE parseFloatOfMatch(match),
                             category |-> ""]]

\* generateTaxInsights (AI library 394-441): the parsed array of the service,
\* the fallback insights otherwise
generateTaxInsights(response) ==
    IF response.kind = "fulfilled" /\ response.json = "array"
    THEN [settled |-> "fulfilled", value |-> "service"]
    ELSE [settled |-> "fulfilled", value |-> "fallback"]

\* the state the handlers read and set
AiState == [entries |-> entries, isAnalyzing |-> isAnalyzing, aiInsights |-> aiInsights]

\* addExpenseWithAI (gig-worker page 206-264) up to its await; with a
\* category chosen in the form it does not await and runs to its end
addExpenseWithAIToAwait(st, newExpense) ==
    LET amount == toNumber(newExpense.amount)
        description == trim(newExpense.description)
    IN  IF Leq(amount, Zero) \/ description = ""
        THEN [state |-> st, path |-> "invalid", awaits |-> FALSE]
        ELSE IF newExpense.category # ""
        THEN [state |-> [st EXCEPT !.entries = Append(@, [amount |-> amount,
                                                         category |-> newExpense.category]),
                                   !.isAnalyzing = FALSE],
              path |-> "added", awaits |-> FALSE]
        ELSE [state |-> [st EXCEPT !.isAnalyzing = TRUE],
              path |-> "awaiting", awaits |-> TRUE]

\* addExpenseWithAI from the settlement of categorizeExpense on; confirmed is
\* the answer to the confirm dialog, should it be shown
addExpenseWithAIFromAwait(st, newExpense, confirmed, aiResult) ==
    IF aiResult.settled = "rejected"
    THEN [state |-> [st EXCEPT !.entries = addExpenseTo(@, newExpense),
                               !.isAnalyzing = FALSE],
          path |-> "failed"]
    ELSE LET asked == aiResult.value.category # "" /\ aiResult.value.confidence > 60
             category == IF asked /\ ~confirmed THEN "" ELSE aiResult.value.category
         IN  IF category = ""
             THEN [state |-> [st EXCEPT !.isAnalyzing = FALSE],
                   path |-> IF asked THEN "declined" ELSE "noCategory"]
             ELSE [state |-> [st EXCEPT !.entries =
                                            Append(@, [amount |-> toNumber(newExpense.amount),
                                                       category |-> category]),
                                        !.isAnalyzing = FALSE],
                   path |-> "added"]

\* addNaturalLanguageExpense (gig-worker page 266-305) up to its await
addNaturalLanguageExpenseToAwait(st, naturalLanguageInput) ==
    IF trim(naturalLanguageInput) = ""
    THEN [state |-> st, path |-> "invalid", awaits |-> FALSE]
    ELSE [state |-> [st EXCEPT !.isAnalyzing = TRUE], path |-> "awaiting", awaits |-> TRUE]

addNaturalLanguageExpenseWithoutReset(st, parsed) ==
    IF parsed.settled = "rejected"
    THEN [state |-> [st EXCEPT !.isAnalyzing = FALSE], path |-> "failed"]
    ELSE IF Leq(parsed.value.amount, Zero)
    THEN [state |-> st, path |-> "noAmount"]
    ELSE [state |-> [st EXCEPT !.entries =
                                   Append(@, [amount |-> parsed.value.amount,
                                              category |-> IF parsed.value.category = ""
                                                           THEN "other"
                                                           ELSE parsed.value.category]),
                               !.isAnalyzing = FALSE],
          path |-> "added"]

\* addNaturalLanguageExpense from the settlement of parseNaturalLanguageExpense on
addNaturalLanguageExpenseFromAwait(st, parsed) ==
    IF parsed.settled = "rejected"
    THEN [state |-> [st EXCEPT !.isAnalyzing = FALSE], path |-> "failed"]
    ELSE IF Leq(parsed.value.amount, Zero)
    THEN [state |-> [st EXCEPT !.isAnalyzing = FALSE], path |-> "noAmount"]
    ELSE [state |-> [st EXCEPT !.entries =
                                   Append(@, [amount |-> parsed.value.amount,
                                              category |-> IF parsed.value.category = ""
                                                           THEN "other"
                                                           ELSE parsed.value.category]),
                               !.isAnalyzing = FALSE],
          path |-> "added"]

\* generateAIInsights (gig-worker page 307-323) up to its await
generateAIInsightsToAwait(st) ==
    [state |-> [st EXCEPT !.isAnalyzing = TRUE], path |-> "awaiting", awaits |-> TRUE]

\* generateAIInsights from the settlement of generateTaxInsights on
generateAIInsightsFromAwait(st, insights) ==
    IF insights.settled = "rejected"
    THEN [state |-> [st EXCEPT !.isAnalyzing = FALSE], path |-> "failed"]
    ELSE [state |-> [st EXCEPT !.aiInsights = insights.value, !.isAnalyzing = FALSE],
          path |-> "insights"]

\* what the user has in the form and in the quick-add field at the click, and
\* how the inference call settles
AiTypedAmounts == {Typed(Cents(4250)), Typed(Zero), NotANumber}
AiDescriptions == {"gas refill", "groceries", "  "}
NaturalLanguageInputs ==
    {"spent 50 bucks on gas", "toll $4.75 downtown", "car wash", "oil 12.5", "   "}
ParseText(json, amount, category) ==
    [kind |-> "fulfilled", json |-> json, amount |-> amount, category |-> category]
ParseResponses ==
    {Rejected, ParseText("none", NotANumber, ""), ParseText("invalid", NotANumber, ""),
     ParseText("object", Typed(Dollars(500)), "vehicle_gas"),
     ParseText("object", Typed(Cents(-1200)), "rideshare_tolls"),
     ParseText("object", NotANumber, ""),
     ParseText("object", Typed(Cents(475)), "")}
InsightResponses ==
    {Rejected, [kind |-> "fulfilled", json |-> "none"],
     [kind |-> "fulfilled", json |-> "invalid"], [kind |-> "fulfilled", json |-> "array"]}

\* the gig-worker page is mounted on stored inputs and a stored ledger
InitAi ==
    /\ page = "gig"
    /\ \E item \in StoredItems :
           /\ item.kind = "absent" \/ (item.typesOk /\ item.obj = StoredObject)
           /\ i = loadStoredInputs(item)
    /\ annualize = FALSE
    /\ activePreset = "blank"
    /\ entries \in StoredEntries
    /\ AllocIdle /\ BracketIdle /\ SeIdle /\ ExtraIdle

\* a handler's outcome up to its await becomes the next state of the page
AiBecomes(outcome, call) ==
    /\ entries' = outcome.state.entries
    /\ isAnalyzing' = outcome.state.isAnalyzing
    /\ aiInsights' = outcome.state.aiInsights
    /\ aiPath' = outcome.path
    /\ inFlight' = IF outcome.awaits THEN call ELSE NoCall
    /\ UNCHANGED <<page, i, annualize, activePreset,
                   allocVars, bracketVars, seVars, catVars, gateVars>>

\* the Add with AI button of the form; the answer the user has for the
\* confirm dialog is drawn with the click
addExpenseWithAI ==
    /\ page = "gig"
    /\ ~isAnalyzing
    /\ Len(entries) < MaxEntries
    /\ \E t \in AiTypedAmounts, description \in AiDescriptions,
          category \in {"", "vehicle_gas"}, confirmed \in BOOLEAN :
           LET newExpense == [amount |-> t, description |-> description,
                              category |-> category]
           IN  AiBecomes(addExpenseWithAIToAwait(AiState, newExpense),
                         [op |-> "addExpenseWithAI", form |-> newExpense,
                          input |-> "", confirmed |-> confirmed])

\* the Add with AI button of the quick-add field
addNaturalLanguageExpense ==
    /\ page = "gig"
    /\ ~isAnalyzing
    /\ Len(entries) < MaxEntries
    /\ \E naturalLanguageInput \in NaturalLanguageInputs :
           AiBecomes(addNaturalLanguageExpenseToAwait(AiState, naturalLanguageInput),
                     [NoCall EXCEPT !.op = "addNaturalLanguageExpense",
                                    !.input = naturalLanguageInput])

\* the Get AI Tax Insights button
generateAIInsights ==
    /\ page = "gig"
    /\ ~isAnalyzing
    /\ AiBecomes(generateAIInsightsToAwait(AiState),
                 [NoCall EXCEPT !.op = "generateAIInsights"])

\* the rest of the suspended handler, the inference call settling as response
ServiceCallOutcome(response) ==
    IF inFlight.op = "addExpenseWithAI"
    THEN addExpenseWithAIFromAwait(
             AiState, inFlight.form, inFlight.confirmed,
             categorizeExpense(trim(inFlight.form.description),
                               toNumber(inFlight.form.amount), "rideshare", response))
    ELSE IF inFlight.op = "addNaturalLanguageExpense"
    THEN addNaturalLanguageExpenseFromAwait(
             AiState, parseNaturalLanguageExpense(inFlight.input, "rideshare", response))
    ELSE generateAIInsightsFromAwait(AiState, generateTaxInsights(response))

\* the awaited promise settles and the suspended handler runs to its end
ServiceCallSettles ==
    /\ inFlight.op # "none"
    /\ \E response \in (IF inFlight.op = "addExpenseWithAI" THEN CatResponses
                         ELSE IF inFlight.op = "addNaturalLanguageExpense"
                         THEN ParseResponses ELSE InsightResponses) :
           LET outcome == ServiceCallOutcome(response)
           IN  AiBecomes([state |-> outcome.state, path |-> outcome.path,
                          awaits |-> FALSE], NoCall)

NextAi ==
    \/ addExpenseWithAI \/ addNaturalLanguageExpense \/ generateAIInsights
    \/ ServiceCallSettles \/ addExpense \/ removeExpense

SpecAi == InitAi /\ [][NextAi]_vars

\* the awaited promise settles and the suspended handler has run to its end:
\* the steps of ServiceCallSettles, and no others, take inFlight from a
\* suspended handler back to NoCall
ServiceCallSettled == inFlight.op # "none" /\ inFlight' = NoCall

\* the awaited promise of a suspended handler does settle
SpecAiLive == SpecAi /\ WF_inFlight(ServiceCallSettled)

(***************************************************************************)
(* Claims about the allocator, checked under SpecAlloc.                    *)
(***************************************************************************)
RECURSIVE SumNum(_)
SumNum(s) == IF s = <<>> THEN Zero ELSE Add(Head(s), SumNum(Tail(s)))

\* x rounded half-up to a whole number of cents: the integer c with
\* c - 1/2 <= 100 x < c + 1/2
CentsRounded(x) ==
    LET f == MathFloor(Times(x, 100))
    IN  CHOOSE c \in {f, f + 1} :
            /\ Leq(FromInt(2 * c - 1), Times(x, 200))
            /\ Less(Times(x, 200), FromInt(2 * c + 1))

\* an amount of the schedule as a whole number of cents (-1 if it is none)
AsCents(q) == IF Times(q, 100) = FromInt(MathFloor(Times(q, 100)))
              THEN MathFloor(Times(q, 100)) ELSE -1

\* how often index k (1..n) is visited when r cents are handed out one at a
\* time from index n downward, wrapping from index 1 back to index n
Visits(k, r, n) == Cardinality({j \in 1..r : n - ((j - 1) % n) = k})

\* C1 (as stated): for every totalAmount >= 0, every N in {0,1,2,4,12} and both
\* weightings, the amounts returned by splitIntoQuarters sum to totalAmount
\* rounded to the cent.
C1_ExactnessAllN ==
    (aPhase = "returned" /\ Leq(Zero, aTotal))
        => SumNum(aQuarters) = Over(FromInt(CentsRounded(aTotal)), 100)

\* C1 (amended): for every totalAmount >= 0, every N in {1,2,4,12} and both
\* weightings, the amounts returned sum to totalAmount rounded to the cent; for
\* N = 0 the result is the empty sequence, whose sum is 0.
C1_ExactnessPositiveN ==
    (aPhase = "returned" /\ Leq(Zero, aTotal))
        => IF aN = 0
           THEN aQuarters = <<>>
           ELSE /\ Len(aQuarters) = aN
                /\ SumNum(aQuarters) = Over(FromInt(CentsRounded(aTotal)), 100)

C1_Witness ==
    /\ aPhase = "returned" /\ aN = 12 /\ Less(Zero, aTotal)
    /\ Less(aQuarters[1], aQuarters[12])

\* C2: for N >= 1 and totalCents = max(0, round(totalAmount*100)) > 0 the
\* allocator returns N values, value k being floor(totalCents*weight[k]/sum of
\* the weights) cents plus one cent per visit of k when the remainder is handed
\* out from the last index backward (wrapping); for N = 0 it returns <<>>.
C2_RemainderDistribution ==
    aPhase = "returned" =>
        LET tc == IF CentsRounded(aTotal) > 0 THEN CentsRounded(aTotal) ELSE 0
            w == IF aAnnualized /\ aN = 4 THEN <<30, 30, 20, 20>>
                 ELSE [k \in 1..aN |-> 1]
            ws == SumSeq(w)
            base == [k \in 1..aN |-> (tc * w[k]) \div ws]
            r == tc - SumSeq(base)
        IN  /\ aN = 0 => aQuarters = <<>>
            /\ (aN >= 1 /\ tc > 0) =>
                   /\ Len(aQuarters) = aN
                   /\ \A k \in 1..aN :
                          AsCents(aQuarters[k]) = base[k] + Visits(k, r, aN)

C2_Witness ==
    /\ aPhase = "returned" /\ aN = 4 /\ ~aAnnualized
    /\ Less(aQuarters[2], aQuarters[3]) /\ aQuarters[1] = aQuarters[2]

\* C3: with weighted = true and N = 4 the weights are 30, 30, 20, 20; for every
\* other N the output with weighted = true is the output with weighted = false.
C3_WeightedOnlyForFour ==
    aPhase = "returned" =>
        /\ aN # 4 => aQuarters = splitIntoQuarters(aTotal, FALSE, aN)
        /\ (aN = 4 /\ aAnnualized /\ CentsRounded(aTotal) > 0) =>
               LET tc == CentsRounded(aTotal)
                   w4 == <<30, 30, 20, 20>>
                   r == tc - SumSeq([k \in 1..4 |-> (tc * w4[k]) \div 100])
               IN  \A k \in 1..4 :
                       AsCents(aQuarters[k]) - Visits(k, r, 4) = (tc * w4[k]) \div 100

C3_Witness ==
    /\ aPhase = "returned" /\ aAnnualized /\ aN = 12
    /\ Less(aQuarters[1], aQuarters[12])


(***************************************************************************)
(* Claims about federalIncomeTax2025, checked under SpecBracket.           *)
(***************************************************************************)
\* the upper bound of bracket k of the table as a number; bracket 0 ends at 0
UpperBound(status, k) ==
    IF k = 0 THEN Zero ELSE Dollars(BRACKETS_2025[status][k].upto)

\* the part of the taxable income lying in bracket k
PartInBracket(taxable, status, k) ==
    IF BRACKETS_2025[status][k].bounded
    THEN MathMax(Zero, Sub(MathMin(taxable, UpperBound(status, k)),
                           UpperBound(status, k - 1)))
    ELSE MathMax(Zero, Sub(taxable, UpperBound(status, k - 1)))

RECURSIVE BracketSum(_, _, _)
BracketSum(taxable, status, k) ==
    IF k = 0 THEN Zero
    ELSE Add(BracketSum(taxable, status, k - 1),
             Rate(PartInBracket(taxable, status, k), BRACKETS_2025[status][k].rate, 100))

\* t is x rounded half-up to a whole dollar: t is whole and t - 1/2 <= x < t + 1/2
IsRoundHalfUp(t, x) ==
    /\ t = FromInt(t[1])
    /\ Leq(FromInt(2 * t[1] - 1), Times(x, 2))
    /\ Less(Times(x, 2), FromInt(2 * t[1] + 1))

TaxAsClaimed(tax, taxable, status) ==
    /\ Leq(Zero, tax)
    /\ IF Leq(taxable, Zero) THEN tax = Zero
       ELSE IsRoundHalfUp(tax, BracketSum(taxable, status, 7))

\* C5: federalIncomeTax2025(taxable, status) is 0 for taxable <= 0 and otherwise
\* the round-half-up to a whole dollar of the sum over the brackets of rate_k
\* times the part of the taxable income between the previous and this bracket's
\* upper bound; it is never negative.
C5_BracketFormula ==
    bPhase = "returned" =>
        /\ TaxAsClaimed(bTax, bTaxable, bStatus)
        /\ TaxAsClaimed(bTax2, bTaxable2, bStatus)

C5_Witness ==
    /\ bPhase = "returned" /\ bStatus = "mfs"
    /\ Less(Dollars(375800), bTaxable) /\ Less(Dollars(100000), bTax)

C7_WageBaseInteraction ==
    sPhase = "returned" =>
        LET wageBase == Dollars(176100)
            seBase == sResult.seBase
        IN  /\ Leq(wageBase, sW2) => sResult.oasdi = Zero
            /\ sW2 = Zero =>
                   sResult.oasdi = Rate(MathMin(seBase, wageBase), 124, 1000)
            /\ sResult.oasdi =
                   Rate(MathMin(seBase, MathMax(Zero, Sub(wageBase, sW2))), 124, 1000)

C7_Witness ==
    /\ sPhase = "returned"
    /\ Less(Zero, sW2) /\ Less(sW2, Dollars(176100))
    /\ Less(Sub(Dollars(176100), sW2), sResult.seBase)
    /\ Less(Zero, sResult.oasdi)

\* C8: Additional Medicare is 0.009 times the part of w2Wages + seBase above the
\* threshold of the filing status (200,000 single and hoh, 125,000 mfs, 250,000
\* mfj), capped at seBase: 0 when w2Wages + seBase <= threshold, and its base is
\* never more than seBase even when the W-2 wages alone exceed the threshold.
C8_AdditionalMedicare ==
    sPhase = "returned" =>
        LET threshold == Dollars(CASE sStatus = "single" -> 200000
                                   [] sStatus = "hoh" -> 200000
                                   [] sStatus = "mfs" -> 125000
                                   [] sStatus = "mfj" -> 250000)
            seBase == sResult.seBase
            over == MathMax(Zero, Sub(Add(sW2, seBase), threshold))
        IN  /\ sResult.addlMedicare = Rate(MathMin(over, seBase), 9, 1000)
            /\ Leq(Add(sW2, seBase), threshold) => sResult.addlMedicare = Zero
            /\ Leq(sResult.addlMedicare, Rate(seBase, 9, 1000))

C8_Witness ==
    /\ sPhase = "returned" /\ sStatus = "mfj"
    /\ Less(Dollars(250000), sW2) /\ Less(Zero, sResult.seBase)
    /\ sResult.addlMedicare = Rate(sResult.seBase, 9, 1000)

\* C9: total = oasdi + medicare + addlMedicare and deduction = 0.5 * (oasdi +
\* medicare), without any part of Additional Medicare; medicare = 0.029 * seBase
\* with seBase = 0.9235 * max(0, netBusinessIncome), not capped by the wage base.
C9_TotalAndDeduction ==
    sPhase = "returned" =>
        /\ sResult.total =
               Add(sResult.oasdi, Add(sResult.medicare, sResult.addlMedicare))
        /\ Times(sResult.deduction, 2) = Add(sResult.oasdi, sResult.medicare)
        /\ sResult.medicare =
               Rate(Rate(MathMax(Zero, sNbi), 9235, 10000), 29, 1000)

C9_Witness ==
    /\ sPhase = "returned"
    /\ Less(Zero, sResult.addlMedicare)
    /\ Less(Dollars(176100), sResult.seBase)
    /\ Less(Rate(Dollars(176100), 29, 1000), sResult.medicare)


(***************************************************************************)
(* Claims about the calculator pages, checked under Spec.                  *)
(***************************************************************************)
\* C4: on the calculator pages (four due dates), for every schema-valid Inputs,
\* every expense ledger and both installment styles, the four installment
\* amounts in integer cents sum to round(estTaxAfterWithholding * 100).
C4_ScheduleSumsToAmountDue ==
    LET t == PageTotals
    IN  /\ Len(t.quarters) = 4
        /\ \A k \in 1..4 : AsCents(t.quarters[k]) >= 0
        /\ SumSeq([k \in 1..4 |-> AsCents(t.quarters[k])])
               = CentsRounded(t.estTaxAfterWithholding)

C4_Witness ==
    /\ page = "gig" /\ entries # <<>> /\ annualize
    /\ Less(Zero, PageTotals.estTaxAfterWithholding)
    /\ Times(PageTotals.estTaxAfterWithholding, 100)
           # FromInt(MathFloor(Times(PageTotals.estTaxAfterWithholding, 100)))
    /\ Less(PageTotals.quarters[3], PageTotals.quarters[4])

\* C10: for every netBusinessIncome <= 0 seTax2025 returns seBase, oasdi,
\* medicare, addlMedicare, total and deduction all 0, while totalIncome =
\* w2Wages + netBusinessIncome + otherIncome is reduced by the loss (it may be
\* negative) and the taxable income base handed to the bracket calculator is
\* max(0, totalIncome - standardDeduction - halfSEDeduction), never negative.
C10_BusinessLoss ==
    LET t == PageTotals
        nbi == IF page = "app" THEN i.netBusinessIncome
               ELSE Sub(i.netBusinessIncome, getTotalExpenses(entries))
        std == Dollars(CASE i.filingStatus = "single" -> 15000
                         [] i.filingStatus = "mfj" -> 30000
                         [] i.filingStatus = "mfs" -> 15000
                         [] i.filingStatus = "hoh" -> 22500)
        base == Sub(Sub(t.totalIncome, std), t.se.deduction)
    IN  Leq(nbi, Zero) =>
            /\ t.se.seBase = Zero /\ t.se.oasdi = Zero /\ t.se.medicare = Zero
            /\ t.se.addlMedicare = Zero /\ t.se.total = Zero
            /\ t.se.deduction = Zero
            /\ t.totalIncome = Add(Add(i.w2Wages, nbi), i.otherIncome)
            /\ Leq(Zero, t.taxableIncomeBase)
            /\ t.taxableIncomeBase = (IF Less(base, Zero) THEN Zero ELSE base)

C10_Witness ==
    /\ page = "app" /\ Less(i.netBusinessIncome, Zero)
    /\ Less(PageTotals.totalIncome, Zero)
    /\ PageTotals.taxableIncomeBase = Zero /\ PageTotals.se.total = Zero

\* the business income the mounted page computes with: the Inputs field on
\* App, the field less the ledger's expenses on the gig-worker page
PageBusinessIncome ==
    IF page = "app" THEN i.netBusinessIncome
    ELSE Sub(i.netBusinessIncome, getTotalExpenses(entries))

PagePerChild == IF i.use2200PerChild THEN 2200 ELSE 2000

\* C11: ACTC cap law: for every valid Inputs the refundable ACTC is at most
\* actcCap (1700 per qualifying child), at most actcIncomeLimit
\* (0.15 * max(0, earnedIncome - 2500), earnedIncome = w2Wages + max(0,
\* netBusinessIncome)) and at most the nonrefundable child credit, and it is 0
\* whenever the number of qualifying children is 0.
C11_ActcCapLaw ==
    LET t == PageTotals
        earnedIncome == Add(i.w2Wages, MathMax(Zero, PageBusinessIncome))
        actcCap == Times(i.dependentsUnder17, 1700)
        actcIncomeLimit ==
            Rate(MathMax(Zero, Sub(earnedIncome, Dollars(2500))), 15, 100)
        nonrefundableChildCredit == Times(i.dependentsUnder17, PagePerChild)
    IN  /\ Leq(t.actc, actcCap)
        /\ Leq(t.actc, actcIncomeLimit)
        /\ Leq(t.actc, nonrefundableChildCredit)
        /\ (i.dependentsUnder17 = Zero => t.actc = Zero)

C11_Witness ==
    /\ Less(Zero, i.dependentsUnder17)
    /\ Less(Zero, PageTotals.actc)
    /\ Less(PageTotals.actc, Times(i.dependentsUnder17, 1700))
    /\ PageTotals.actc
           = Rate(Sub(Add(i.w2Wages, MathMax(Zero, PageBusinessIncome)), Dollars(2500)),
                  15, 100)

\* C12: for every valid Inputs totalTaxLiability = incomeTaxAfterNonref +
\* se.total - actc, where nonrefUsed = min(incomeTax, nonrefChild + otherDep)
\* and incomeTaxAfterNonref = max(0, incomeTax - nonrefUsed).
C12_LiabilityIdentity ==
    LET t == PageTotals
        nonrefChild == Times(i.dependentsUnder17, PagePerChild)
        otherDep == Times(i.otherDependents, 500)
        used == IF Less(t.incomeTax, Add(nonrefChild, otherDep))
                THEN t.incomeTax ELSE Add(nonrefChild, otherDep)
        after == IF Less(Sub(t.incomeTax, used), Zero)
                 THEN Zero ELSE Sub(t.incomeTax, used)
    IN  /\ t.nonrefUsed = used
        /\ t.incomeTaxAfterNonref = after
        /\ t.totalTaxLiability = Sub(Add(t.incomeTaxAfterNonref, t.se.total), t.actc)

C12_Witness ==
    /\ Less(Zero, i.otherDependents)
    /\ Less(Times(i.dependentsUnder17, PagePerChild), PageTotals.nonrefUsed)
    /\ Less(PageTotals.nonrefUsed, PageTotals.incomeTax)
    /\ Less(Zero, PageTotals.se.total)

\* C13: totalTaxLiability is not floored at 0: whenever the refundable ACTC
\* exceeds the income tax left after the nonrefundable credits plus the SE tax,
\* the exposed totalTaxLiability is negative, while estTaxAfterWithholding in
\* the current-year mode is 0; such Inputs exist (W-2 wages below the standard
\* deduction with a qualifying child).
C13_LiabilityNotFloored ==
    LET t == PageTotals
    IN  Less(Add(t.incomeTaxAfterNonref, t.se.total), t.actc) =>
            /\ Less(t.totalTaxLiability, Zero)
            /\ t.totalTaxLiability = Sub(Add(t.incomeTaxAfterNonref, t.se.total), t.actc)
            /\ (i.safeHarborMode = "current" => t.estTaxAfterWithholding = Zero)

C13_Witness ==
    /\ i.safeHarborMode = "current"
    /\ Less(i.w2Wages, PageTotals.stdDed) /\ Less(Zero, i.w2Wages)
    /\ Less(Zero, i.dependentsUnder17)
    /\ Less(PageTotals.totalTaxLiability, Zero)
    /\ PageTotals.estTaxAfterWithholding = Zero
    /\ PageTotals.quarters = <<Zero, Zero, Zero, Zero>>

C15_NinetyPercentOfCurrentYear ==
    LET t == PageTotals
    IN  i.safeHarborMode = "current"
            => t.requiredForSafeHarbor = Rate(t.totalTaxLiability, 90, 100)

\* C16: in the prior-year modes the target does not depend on the current
\* year: the target, the amount due after withholding and the schedule are
\* those of the Inputs that have only safeHarborMode, priorYearTotalTax and
\* w2Withheld set (everything else at its default, no expenses), so any two
\* Inputs agreeing on these three get the same; with prior110 and
\* priorYearTotalTax = 9200 the target is 10120.
C16_PriorYearIndependence ==
    LET t == PageTotals
        bare == totals([defaultInputs EXCEPT !.safeHarborMode = i.safeHarborMode,
                                             !.priorYearTotalTax = i.priorYearTotalTax,
                                             !.w2Withheld = i.w2Withheld],
                       annualize)
    IN  /\ (i.safeHarborMode \in {"prior100", "prior110"} =>
               /\ t.requiredForSafeHarbor = bare.requiredForSafeHarbor
               /\ t.estTaxAfterWithholding = bare.estTaxAfterWithholding
               /\ t.quarters = bare.quarters)
        /\ ((i.safeHarborMode = "prior110" /\ i.priorYearTotalTax = Dollars(9200))
               => t.requiredForSafeHarbor = Dollars(10120))

C16_Witness ==
    /\ activePreset = "etsySeller"
    /\ i.safeHarborMode = "prior110" /\ i.priorYearTotalTax = Dollars(9200)
    /\ i.w2Wages = Dollars(180000) /\ i.filingStatus = "hoh"
    /\ PageTotals.requiredForSafeHarbor = Dollars(10120)
    /\ Less(Dollars(10120), PageTotals.totalTaxLiability)

\* C17: for every valid Inputs estTaxAfterWithholding = max(0,
\* requiredForSafeHarbor - w2Withheld): it is never negative (also when
\* totalTaxLiability is negative or the withholding exceeds the target), and
\* every installment amount of the schedule is >= 0.
C17_AmountDueNeverNegative ==
    LET t == PageTotals
        left == Sub(t.requiredForSafeHarbor, i.w2Withheld)
    IN  /\ t.estTaxAfterWithholding = (IF Less(left, Zero) THEN Zero ELSE left)
        /\ Leq(Zero, t.estTaxAfterWithholding)
        /\ \A k \in 1..Len(t.quarters) : Leq(Zero, t.quarters[k])

C17_Witness ==
    /\ Less(Zero, PageTotals.requiredForSafeHarbor)
    /\ Less(PageTotals.requiredForSafeHarbor, i.w2Withheld)
    /\ PageTotals.estTaxAfterWithholding = Zero
    /\ \A k \in 1..4 : PageTotals.quarters[k] = Zero

\* the parts of the rideshare scenario that do not concern the sum of the
\* schedule: totalIncome 51500, SE base 38787 with OASDI on the whole base,
\* Medicare, no Additional Medicare, standard deduction 15000, and an amount
\* due of totalTaxLiability - 600
RideshareFigures(t) ==
    /\ t.totalIncome = Dollars(51500)
    /\ t.se.seBase = Dollars(38787)
    /\ t.se.oasdi = Rate(Dollars(38787), 124, 1000)
    /\ t.se.medicare = Rate(Dollars(38787), 29, 1000)
    /\ t.se.addlMedicare = Zero
    /\ t.stdDed = Dollars(15000)
    /\ t.estTaxAfterWithholding = Sub(t.totalTaxLiability, Dollars(600))
    /\ Len(t.quarters) = 4

RideshareInputs == i = PresetSeed("rideshare") /\ entries = <<>>

ZeroInputs ==
    {[defaultInputs EXCEPT !.filingStatus = s, !.safeHarborMode = m,
                           !.use2200PerChild = u] :
         s \in FilingStatus, m \in SafeHarborModes, u \in BOOLEAN}

\* C19: zero case: for Inputs with every numeric field 0 (any filing status)
\* totalTaxLiability = 0 and the schedule is the allocator's result for the
\* amount 0 and N = 4, [0,0,0,0]; and whenever the amount to distribute rounds
\* to 0 cents or is negative the allocator returns N zeros, for both
\* installment styles.
C19_ZeroCase ==
    /\ (aPhase = "returned" /\ aN = 4 /\ aTotal = Zero) =>
           \A in \in ZeroInputs :
               /\ totals(in, aAnnualized).totalTaxLiability = Zero
               /\ totals(in, aAnnualized).estTaxAfterWithholding = aTotal
               /\ totals(in, aAnnualized).quarters = aQuarters
               /\ gigTotals(in, aAnnualized, <<>>).totalTaxLiability = Zero
               /\ gigTotals(in, aAnnualized, <<>>).quarters = aQuarters
    /\ (aPhase = "returned" /\ (Less(aTotal, Zero) \/ Less(Times(aTotal, 200), FromInt(1))))
           => aQuarters = [k \in 1..aN |-> Zero]

C19_Witness ==
    /\ aPhase = "returned" /\ aN = 4 /\ aTotal = Zero
    /\ aQuarters = <<Zero, Zero, Zero, Zero>>
    /\ \A in \in ZeroInputs : totals(in, aAnnualized).estTaxAfterWithholding = aTotal

(***************************************************************************)
(* Claims about the Inputs state of the pages, checked under Spec.         *)
(***************************************************************************)
IsWhole(x) == x = FromInt(MathFloor(x))

\* C21: every Inputs value that reaches the tax calculation, after any
\* sequence of loads from storage, form edits through applyInputs and preset
\* applications, has integer dependentsUnder17 and otherDependents.
C21_IntegerDependents ==
    IsWhole(i.dependentsUnder17) /\ IsWhole(i.otherDependents)

\* patches whose merged result fails InputsSchema
FailingPatches ==
    { [w2Wages |-> Dollars(-1)], [w2Withheld |-> Cents(-1)],
      [otherIncome |-> Dollars(-100)], [dependentsUnder17 |-> Dollars(-1)],
      [otherDependents |-> Dollars(-2)], [priorYearTotalTax |-> Cents(-50)],
      [filingStatus |-> "widow"], [safeHarborMode |-> "prior90"],
      [netBusinessIncome |-> Dollars(5), w2Wages |-> Dollars(-5)] }

\* C24: the schema guards the Inputs state: in every state reachable by the
\* initial load, applyInputs and applyPreset the Inputs satisfy InputsSchema
\* (filingStatus and safeHarborMode in their enumerations; w2Wages, w2Withheld,
\* otherIncome, dependentsUnder17, otherDependents and priorYearTotalTax >= 0);
\* an applyInputs patch whose merged result fails the schema leaves the Inputs
\* unchanged, and stored data that fails to parse or validate is replaced by
\* the all-zero defaults.
C24_SchemaGuardsInputs ==
    /\ i.filingStatus \in {"single", "mfj", "mfs", "hoh"}
    /\ i.safeHarborMode \in {"current", "prior100", "prior110"}
    /\ \A f \in {"w2Wages", "w2Withheld", "otherIncome", "dependentsUnder17",
                 "otherDependents", "priorYearTotalTax"} : i[f][1] >= 0
    /\ i.use2200PerChild \in BOOLEAN
    /\ \A patch \in FailingPatches : applyInputs(i, patch) = i
    /\ \A item \in StoredItems :
           LET o == item.obj
               bad == \/ item.kind # "object"
                      \/ ~item.typesOk
                      \/ o.filingStatus \notin {"single", "mfj", "mfs", "hoh"}
                      \/ o.w2Withheld[1] < 0
           IN  /\ bad => loadStoredInputs(item) = defaultInputs
               /\ loadStoredInputs(item) \in {defaultInputs, o}
    /\ \A f \in {"w2Wages", "w2Withheld", "netBusinessIncome", "otherIncome",
                 "dependentsUnder17", "otherDependents", "priorYearTotalTax"} :
           defaultInputs[f] = Zero

C24_Witness ==
    /\ page = "gig" /\ i # defaultInputs
    /\ Less(i.netBusinessIncome, Zero)
    /\ i.priorYearTotalTax = Cents(5000050)
    /\ applyInputs(i, [w2Wages |-> Dollars(-1)]) = i
    /\ applyInputs(i, [w2Wages |-> Dollars(1)]) # i

\* C23: the engine is unaware of expenses: for every Inputs and every ledger
\* all tax figures of the gig-worker page equal those App computes for the
\* same Inputs with netBusinessIncome replaced by the gross business income
\* minus the sum of the amounts of all ledger entries.
C23_ExpensesOnlyThroughTotal ==
    page = "gig" =>
        LET g == gigTotals(i, annualize, entries)
            spent == SumNum([k \in 1..Len(entries) |-> entries[k].amount])
            a == totals([i EXCEPT !.netBusinessIncome = Sub(i.netBusinessIncome, spent)],
                        annualize)
        IN  /\ g.totalExpenses = spent
            /\ g.netBusinessIncomeAfterExpenses = Sub(i.netBusinessIncome, spent)
            /\ \A f \in DOMAIN a : g[f] = a[f]

C23_Witness ==
    /\ page = "gig" /\ Len(entries) = 2
    /\ Less(Zero, PageTotals.netBusinessIncomeAfterExpenses)
    /\ Less(Zero, PageTotals.se.total)
    /\ Less(Zero, PageTotals.estTaxAfterWithholding)

\* C29: credits granted never exceed credits available: for every valid Inputs
\* nonrefUsed <= incomeTax, nonrefUsed + actc <= nonrefChild + otherDep, and
\* min(incomeTax, nonrefChild) + actc <= nonrefChild.
C29_CreditsNotCountedTwice ==
    LET t == PageTotals
        nonrefChild == Times(i.dependentsUnder17, PagePerChild)
        otherDep == Times(i.otherDependents, 500)
        offset == IF Less(t.incomeTax, nonrefChild) THEN t.incomeTax ELSE nonrefChild
    IN  /\ Leq(t.nonrefUsed, t.incomeTax)
        /\ Leq(Add(t.nonrefUsed, t.actc), Add(nonrefChild, otherDep))
        /\ Leq(Add(offset, t.actc), nonrefChild)

C29_Witness ==
    /\ Less(Zero, PageTotals.incomeTax)
    /\ Less(PageTotals.incomeTax, Times(i.dependentsUnder17, PagePerChild))
    /\ Less(Zero, PageTotals.actc)
    /\ Add(PageTotals.incomeTax, PageTotals.actc) = Times(i.dependentsUnder17, PagePerChild)

(***************************************************************************)
(* The cent-distribution loop, checked under SpecAlloc.                    *)
(***************************************************************************)
\* C26: for every N >= 1, every total and both weightings the remainder left
\* after the floor shares is in 0..N-1; the loop hands out exactly `remainder`
\* cents, one each to the last `remainder` installments, never wraps around
\* with cents left, and every installment is its floor share or its floor
\* share plus exactly one cent.
C26_RemainderBelowN ==
    (aPhase = "returned" /\ aN >= 1) =>
        LET totalCents == IF Less(aTotal, Zero) THEN 0 ELSE CentsRounded(aTotal)
            w == IF aAnnualized /\ aN = 4 THEN <<30, 30, 20, 20>>
                 ELSE [k \in 1..aN |-> 1]
            share == [k \in 1..aN |-> (totalCents * w[k]) \div SumSeq(w)]
            remainder == totalCents - SumSeq(share)
        IN  /\ remainder \in 0..(aN - 1)
            /\ Len(aQuarters) = aN
            /\ \A k \in 1..aN :
                   AsCents(aQuarters[k])
                       = share[k] + (IF k > aN - remainder THEN 1 ELSE 0)

C26_Witness ==
    /\ aPhase = "returned" /\ aN = 12 /\ ~aAnnualized
    /\ AsCents(aQuarters[1]) > 0
    /\ AsCents(aQuarters[2]) = AsCents(aQuarters[1]) + 1

(***************************************************************************)
(* The categorization fallback, checked under SpecCat.                     *)
(***************************************************************************)
\* what the claim's rule gives for the descriptions tried: the category of the
\* first pattern of the business type's table with a keyword contained in the
\* lower-cased description
RuleBasedAsClaimed(description, businessType) ==
    LET hit == [category |-> "", confidence |-> 70]
        miss == [category |-> "", confidence |-> 30]
    IN  CASE businessType = "rideshare" /\ description \in {"Uber gas refill", "Gasket", "GAS", "gas"}
                -> [hit EXCEPT !.category = "vehicle_gas"]
          [] businessType = "rideshare" /\ description = "UBER commission"
                -> [hit EXCEPT !.category = "rideshare_commissions"]
          [] businessType = "rideshare" /\ description = "Car Wash"
                -> [hit EXCEPT !.category = "rideshare_tolls"]
          [] businessType = "ecommerce" /\ description = "UPS shipping of stock"
                -> [hit EXCEPT !.category = "cogs_inventory"]
          [] businessType = "consultant" /\ description = "Lunch at hotel"
                -> [hit EXCEPT !.category = "consultant_travel"]
          [] OTHER -> miss

\* C25: categorizeExpense never fails and falls back deterministically:
\* whenever the inference call throws, or its text contains no parsable JSON
\* object, the result is the rule-based one: the category of the first keyword
\* pattern (in table order) with a keyword contained in the lower-cased
\* description and confidence 0.7, or category null with confidence 0.3 when
\* no pattern matches.
C25_CategorizeFallsBack ==
    cPhase = "settled" =>
        /\ cResult.settled = "fulfilled"
        /\ (cResponse.kind = "rejected" \/ cResponse.json # "object")
               => cResult.value = RuleBasedAsClaimed(cDescription, cBusinessType)

C25_Witness ==
    /\ cPhase = "settled" /\ cResponse.kind = "fulfilled" /\ cResponse.json = "invalid"
    /\ cDescription = "Uber gas refill" /\ cBusinessType = "rideshare"
    /\ cResult = [settled |-> "fulfilled",
                  value |-> [category |-> "vehicle_gas", confidence |-> 70]]

(***************************************************************************)
(* The premium-download gate, checked under SpecGate.                      *)
(***************************************************************************)
\* the lead emails of the model that match the pattern once trimmed
EmailsThatMatch == {"a@b.c", "x.y@z.io", " a@b.co ", "first.last@mail.example.org"}

\* C27: download gating: a CSV or PDF file is generated only in a step where
\* premiumUnlocked is already true, or in the unlockDownloads step whose
\* trimmed email matches the pattern (which sets premiumUnlocked and then
\* performs exactly the pending download type); a submission with a
\* non-matching email generates no file, leaves premiumUnlocked, the modal and
\* the pending download unchanged and only sets the error message;
\* premiumUnlocked never goes back from true to false.
C27_DownloadGating ==
    [][ /\ dFile' # "none" =>
               \/ premiumUnlocked /\ dHandler' = "handleDownloadRequest"
               \/ /\ dHandler' = "unlockDownloads"
                  /\ leadEmail \in EmailsThatMatch
                  /\ premiumUnlocked'
                  /\ dFile' = pendingDownload
        /\ (dHandler' = "unlockDownloads" /\ leadEmail \notin EmailsThatMatch) =>
               /\ dFile' = "none"
               /\ emailError' = EmailErrorMessage
               /\ UNCHANGED <<premiumUnlocked, showUpgradeModal, pendingDownload,
                              leadEmail>>
        /\ (dHandler' = "unlockDownloads" /\ leadEmail \in EmailsThatMatch) =>
               premiumUnlocked' /\ dFile' = pendingDownload
        /\ (premiumUnlocked => premiumUnlocked')
      ]_vars

C27_Witness ==
    /\ dHandler = "unlockDownloads" /\ dFile = "pdf" /\ premiumUnlocked
    /\ leadEmail = "a@b.c" /\ ~showUpgradeModal

\* C28: in every state reachable through handleDownloadRequest,
\* closeUpgradeModal and unlockDownloads the upgrade modal is shown if and only
\* if a download is pending, and a pending download exists only while
\* premiumUnlocked is false.
C28_ModalIffPending ==
    /\ showUpgradeModal <=> pendingDownload \in {"csv", "pdf"}
    /\ pendingDownload \in {"csv", "pdf", "null"}
    /\ pendingDownload # "null" => ~premiumUnlocked

C28_Witness ==
    /\ dHandler = "unlockDownloads" /\ emailError = EmailErrorMessage
    /\ showUpgradeModal /\ pendingDownload = "csv" /\ ~premiumUnlocked


(***************************************************************************)
(* Claims about the AI-assisted operations, checked under SpecAi and       *)
(* SpecAiLive.                                                             *)
(***************************************************************************)
\* the figures of the tax math the page shows for a ledger
TaxFigures(es) ==
    LET t == gigTotals(i, annualize, es)
    IN  <<t.totalExpenses, t.netBusinessIncomeAfterExpenses, t.totalTaxLiability,
          t.quarters>>

\* C22: the inference service never participates in the tax math: when the
\* call of a suspended handler settles, the page's totalExpenses, net
\* business income, totalTaxLiability and installments are the ones the same
\* step gives with the service unavailable, whatever the service returned.
C22_ServiceNeverInTaxMath ==
    [][(inFlight.op # "none" /\ inFlight'.op = "none")
          => TaxFigures(entries') = TaxFigures(ServiceCallOutcome(Rejected).state.entries)]_vars

\* C30: a set isAnalyzing is eventually cleared; the step in which the
\* service call settles is the rest of the suspended handler and clears
\* isAnalyzing on every path; and an AI-assisted handler that refuses its
\* input leaves isAnalyzing and the ledger as they were.
C30_AnalyzingIsCleared ==
    /\ isAnalyzing ~> ~isAnalyzing
    /\ [][/\ ServiceCallSettled => (ServiceCallSettles /\ ~isAnalyzing')
          /\ ServiceCallSettles => ServiceCallSettled
          /\ ((addExpenseWithAI \/ addNaturalLanguageExpense) /\ aiPath' = "invalid")
                 => UNCHANGED <<isAnalyzing, entries>>]_vars

\* a quick-add whose amount could not be detected has settled, and
\* isAnalyzing is cleared
C30_Witness ==
    /\ aiPath = "noAmount" /\ ~isAnalyzing /\ inFlight = NoCall
=============================================================================
